---- MODULE Spec2Model ----
(***************************************************************************)
(* Invoice lifecycle of flexile: status-gated, lock-protected deletion     *)
(* (DeleteInvoice, DeleteManyInvoices), the approval engine behind the     *)
(* invoices page (approve, bulk approve, reject) and the payable-now       *)
(* predicate of the front end.                                             *)
(***************************************************************************)
EXTENDS Integers, Sequences, FiniteSets

(* ------------------------------ bounds -------------------------------- *)

MaxInvoices == 3

NumCompanies == 2

NumAdmins == 2

MaxQuorum == 2

MaxConsolidated == 2

MaxIds == 2

NumProcs == 2

MaxTotalCents == 250

MidEquityPercentage == 50

(* ----------------------------- universes ------------------------------ *)

InvoiceIds == 1..MaxInvoices

Companies == 1..NumCompanies

Admins == 1..NumAdmins

\* The contractor who submits the invoices: a user who is no administrator.
ContractorUser == NumAdmins + 1

\* An external id no invoice has ("nonexistent-id" of the service specs).
UnknownId == 0

IdUniverse == InvoiceIds \cup {UnknownId}

Procs == 1..NumProcs

\* invoiceStatuses: the values of invoices.status.
Statuses == {"received", "approved", "processing", "payment_pending", "paid", "rejected", "failed"}

\* Invoice::PAID_OR_PAYING_STATES
PAID_OR_PAYING_STATES == {"payment_pending", "processing", "paid"}

\* The deny list without FAILED: a failed invoice would be deletable.
DenyDeletion_WithoutFailed == PAID_OR_PAYING_STATES \cup {"processing"}

\* The deny list without the paid-or-paying states: only the two added statuses deny.
DenyDeletion_FailedAndProcessing == {"failed", "processing"}

\* DeleteInvoice::INVOICE_STATUSES_THAT_DENY_DELETION
INVOICE_STATUSES_THAT_DENY_DELETION == PAID_OR_PAYING_STATES \cup {"failed", "processing"}

NoReason == "null"

\* MAXIMUM_EQUITY_PERCENTAGE of the models; the minimum is 0.
MAXIMUM_EQUITY_PERCENTAGE == 100

Reasons == {"", "Invoice issue date mismatch"}

VARIABLES
  companies,            \* companies.required_invoice_approval_count per company
  invoices,             \* the invoices table: id |-> row, for the rows that exist
  approvals,            \* invoice_approvals: number of rows per (invoice, approver)
  lineItems,            \* invoice_line_items: number of rows per invoice (the rows themselves where the router inserts them)
  expenses,             \* invoice_expenses: number of rows per invoice
  integrationRecords,   \* integration_records per invoice: live and marked-deleted rows
  consolidatedInvoices, \* consolidated_invoices: number of rows per company
  lock,                 \* holder of each invoice's row lock (0: free)
  procs,                \* the deletion requests in flight
  last,                 \* the call that completed latest and its outcome
  probe,                \* arguments of the latest evaluation of a pure predicate
  answer                \* its result

dbVars == <<companies, invoices, approvals, lineItems, expenses, integrationRecords, consolidatedInvoices>>

vars == <<companies, invoices, approvals, lineItems, expenses, integrationRecords, consolidatedInvoices, lock, procs, last, probe, answer>>

(* ------------------------------ helpers ------------------------------- *)

RECURSIVE SumOver(_, _)
SumOver(f, S) == IF S = {} THEN 0 ELSE LET x == CHOOSE y \in S : TRUE IN f[x] + SumOver(f, S \ {x})

\* invoice.approvals.length / invoice.invoice_approvals.count
ApprovalCount(bag) == SumOver(bag, DOMAIN bag)

TotalApprovals == SumOver([i \in InvoiceIds |-> ApprovalCount(approvals[i])], InvoiceIds)

SeqRange(s) == {s[k] : k \in 1..Len(s)}

IdLists == UNION {[1..n -> IdUniverse] : n \in 0..MaxIds}

\* The latest call: its name, the invoices it was given, the acting administrator, what it
\* raised and, for DeleteManyInvoices, how many entries of its id list resolved to no invoice of
\* the company.
NoCall == [op |-> "none", ids |-> <<>>, by |-> 0, raised |-> "none", missing |-> 0]

Call(op, ids, by, raised, missing) == [op |-> op, ids |-> ids, by |-> by, raised |-> raised, missing |-> missing]

\* The ids of a selection in ascending order.
RECURSIVE SetToSeq(_)
SetToSeq(S) == IF S = {} THEN <<>> ELSE LET m == CHOOSE x \in S : \A y \in S : x <= y IN <<m>> \o SetToSeq(S \ {m})

\* A deletion request: where it stands, the invoices still to delete (as loaded), the invoice in
\* hand with the status it was loaded with and the status read under the lock, what it raised
\* and the invoices it has destroyed.
IdleProc ==
  [pc |-> "idle", op |-> "none", company |-> 0, ids |-> <<>>, queue |-> <<>>, cur |-> 0,
   loaded |-> "none", st |-> "none", raised |-> "none", deleted |-> {},
   by |-> 0, input |-> <<>>, invoiceNumber |-> <<>>]

NoProbe == [fn |-> "none"]

CompanyInvoices(c) == {i \in DOMAIN invoices : invoices[i].companyId = c}

(* ------------------------- payable-now predicate ---------------------- *)

\* No invoice ever waits for its payee.
requiresAcceptanceByPayee_Never(invoice) == FALSE

\* requiresAcceptanceByPayee of the invoices router
requiresAcceptanceByPayee(invoice) == invoice.createdById # invoice.userId /\ invoice.acceptedAt = "null"

\* The invoice as the list/get endpoints hand it to the page.
InvoiceView(i) ==
  [status |-> invoices[i].status,
   requiresAcceptanceByPayee |-> requiresAcceptanceByPayee(invoices[i]),
   approvals |-> approvals[i]]

useIsApprovedByCurrentUser(invoice, user) == \E a \in DOMAIN invoice.approvals : a = user /\ invoice.approvals[a] > 0

\* The threshold of the approver who has approved and of the one who has not, swapped.
useIsPayable_SwappedThreshold(invoice, user, requiredInvoiceApprovals) ==
  \/ invoice.status = "failed"
  \/ /\ invoice.status \in {"received", "approved"}
     /\ ~invoice.requiresAcceptanceByPayee
     /\ requiredInvoiceApprovals - ApprovalCount(invoice.approvals)
          <= (IF useIsApprovedByCurrentUser(invoice, user) THEN 1 ELSE 0)

\* One approval further from the quorum still counts as payable.
useIsPayable_OffByOne(invoice, user, requiredInvoiceApprovals) ==
  \/ invoice.status = "failed"
  \/ /\ invoice.status \in {"received", "approved"}
     /\ ~invoice.requiresAcceptanceByPayee
     /\ requiredInvoiceApprovals - ApprovalCount(invoice.approvals)
          <= (IF useIsApprovedByCurrentUser(invoice, user) THEN 1 ELSE 2)

\* The payee's pending acceptance is not looked at.
useIsPayable_IgnoresAcceptance(invoice, user, requiredInvoiceApprovals) ==
  \/ invoice.status = "failed"
  \/ /\ invoice.status \in {"received", "approved"}
     /\ requiredInvoiceApprovals - ApprovalCount(invoice.approvals)
          <= (IF useIsApprovedByCurrentUser(invoice, user) THEN 0 ELSE 1)

\* Only failed invoices count as payable.
useIsPayable_FailedOnly(invoice, user, requiredInvoiceApprovals) == invoice.status = "failed"

useIsPayable(invoice, user, requiredInvoiceApprovals) ==
  \/ invoice.status = "failed"
  \/ /\ invoice.status \in {"received", "approved"}
     /\ ~invoice.requiresAcceptanceByPayee
     /\ requiredInvoiceApprovals - ApprovalCount(invoice.approvals)
          <= (IF useIsApprovedByCurrentUser(invoice, user) THEN 0 ELSE 1)

IsPayableNow(i, user) == useIsPayable(InvoiceView(i), user, companies[invoices[i].companyId].requiredInvoiceApprovals)

(* ------------------------------ deletion ------------------------------ *)

can_delete(status) == status \notin INVOICE_STATUSES_THAT_DENY_DELETION

\* An invoice that is not deletable makes perform raise.
NotDeletableOutcome_Raises == "NotDeletable"

\* return unless can_delete?: perform returns normally, nothing is raised.
NotDeletableOutcome == "none"

\* What one DeleteInvoice#perform raises, given the status read under the lock.
DeleteOutcome(status) == IF can_delete(status) THEN "none" ELSE NotDeletableOutcome

\* The integration records of the invoice are destroyed with it.
MarkDeleted_Destroyed(rec) == [live |-> 0, deleted |-> rec.deleted]

\* integration_records.each(&:mark_deleted!): every live record stays, marked deleted.
MarkDeleted(rec) == [live |-> 0, deleted |-> rec.deleted + rec.live]

\* The invoice rows stay in the table.
RemainingInvoices_Kept(D) == invoices

\* invoice.destroy!: the rows of D leave the invoices table.
RemainingInvoices(D) == [i \in (DOMAIN invoices) \ D |-> invoices[i]]

\* destroy_all on the whole tables instead of the invoice's associations.
DestroyAll_Unscoped(D) ==
  /\ approvals' = [i \in InvoiceIds |-> IF D # {} THEN [a \in Admins |-> 0] ELSE approvals[i]]
  /\ lineItems' = [i \in InvoiceIds |-> IF D # {} THEN 0 ELSE lineItems[i]]
  /\ expenses' = [i \in InvoiceIds |-> IF D # {} THEN 0 ELSE expenses[i]]
  /\ integrationRecords' =
       [i \in InvoiceIds |->
          IF i \in D
            THEN MarkDeleted(integrationRecords[i])
            ELSE integrationRecords[i]]
  /\ invoices' = RemainingInvoices(D)
  /\ UNCHANGED <<companies, consolidatedInvoices>>

\* Lines 16-23 of DeleteInvoice#perform for every invoice of D.
DestroyAll(D) ==
  /\ approvals' = [i \in InvoiceIds |-> IF i \in D THEN [a \in Admins |-> 0] ELSE approvals[i]]
  /\ lineItems' = [i \in InvoiceIds |-> IF i \in D THEN 0 ELSE lineItems[i]]
  /\ expenses' = [i \in InvoiceIds |-> IF i \in D THEN 0 ELSE expenses[i]]
  /\ integrationRecords' =
       [i \in InvoiceIds |->
          IF i \in D
            THEN MarkDeleted(integrationRecords[i])
            ELSE integrationRecords[i]]
  /\ invoices' = RemainingInvoices(D)
  /\ UNCHANGED <<companies, consolidatedInvoices>>

\* The block of DeleteInvoice#perform, run with the status read under the lock.
PerformLocked(D, statusOf) == DestroyAll({i \in D : can_delete(statusOf[i])})

CommittedStatus == [i \in DOMAIN invoices |-> invoices[i].status]

\* One DeleteInvoice.new(invoice:, deleted_by:).perform with no other request in flight.
DeleteInvoice(i) ==
  /\ i \in DOMAIN invoices
  /\ \A p \in Procs : procs[p].pc = "idle"
  /\ PerformLocked({i}, CommittedStatus)
  /\ last' = Call("DeleteInvoice", <<i>>, 0, DeleteOutcome(invoices[i].status), 0)
  /\ UNCHANGED <<lock, procs, probe, answer>>

\* company.invoices.where(external_id: invoice_ids)
ResolvedInvoices(c, ids) == {i \in CompanyInvoices(c) : i \in SeqRange(ids)}

\* Raises only when no id resolves at all.
RaisesRecordNotFound_OnlyWhenNoneResolves(c, ids) == ResolvedInvoices(c, ids) = {} /\ Len(ids) > 0

\* An empty id list is refused as well.
RaisesRecordNotFound_OnEmpty(c, ids) == Cardinality(ResolvedInvoices(c, ids)) # Len(ids) \/ ids = <<>>

\* raise ActiveRecord::RecordNotFound if invoices.size != invoice_ids.size
RaisesRecordNotFound(c, ids) == Cardinality(ResolvedInvoices(c, ids)) # Len(ids)

\* The entries of an id list that name no invoice of the company.
Unresolved(c, ids) == Cardinality({k \in 1..Len(ids) : ids[k] \notin CompanyInvoices(c)})

\* A DeleteManyInvoices call: the latest-call record with the id list it was given, how many of
\* its entries resolved to no invoice of the company and how many times it ran
\* DeleteInvoice.new(invoice:, deleted_by:).perform.
DeleteManyCall(ids, raised, missing, performed) ==
  [op |-> "DeleteManyInvoices", ids |-> ids, by |-> 0, raised |-> raised, missing |-> missing,
   performed |-> performed]

\* What the loop of DeleteManyInvoices#perform raises: what a perform of it raises, if any does.
EachOutcome(D) ==
  IF \E i \in D : DeleteOutcome(invoices[i].status) # "none" THEN NotDeletableOutcome ELSE "none"

\* One DeleteManyInvoices.new(company:, deleted_by:, invoice_ids:).perform with no other request in flight.
DeleteManyInvoices(c, ids) ==
  /\ \A p \in Procs : procs[p].pc = "idle"
  /\ IF RaisesRecordNotFound(c, ids)
       THEN /\ last' = DeleteManyCall(ids, "RecordNotFound", Unresolved(c, ids), 0)
            /\ UNCHANGED dbVars
       ELSE /\ PerformLocked(ResolvedInvoices(c, ids), CommittedStatus)
            /\ last' = DeleteManyCall(ids, EachOutcome(ResolvedInvoices(c, ids)), Unresolved(c, ids),
                                      Cardinality(ResolvedInvoices(c, ids)))
  /\ UNCHANGED <<lock, procs, probe, answer>>

(* --------------------------- approval engine -------------------------- *)

\* A repeated approval by the same administrator is let through.
can_approve_Repeated(i, approver) ==
  /\ i \in DOMAIN invoices
  /\ invoices[i].status \in {"received", "approved", "failed"}

\* Source states of approve: received and approved, and failed for a retried payment.
can_approve(i, approver) ==
  /\ i \in DOMAIN invoices
  /\ invoices[i].status \in {"received", "approved", "failed"}
  /\ approvals[i][approver] = 0

\* The invoices of a selection that the page sends as pay_ids; the rest are approve_ids.
PayIds(sel, approver) == {i \in sel : IsPayableNow(i, approver)}

\* The status moves on without an approval row being written.
WithApproval_NoRow(bag, approver) == bag

\* The invoice's approval rows after the insert of one row for approver.
WithApproval(bag, approver) == [bag EXCEPT ![approver] = @ + 1]

StatusAfterApproval(i, pay) == IF i \in pay THEN "payment_pending" ELSE "approved"

\* The seeded administrators all administer the first company; the other company has none.
CompanyOfAdmin(a) == 1

\* No selected invoice is outside the source states or already approved by approver.
ApproveValid(sel, approver) == \A i \in sel : can_approve(i, approver)

\* What one approve request writes: an approval row per selected invoice, the new statuses and
\* one ConsolidatedInvoice for the invoices sent as pay_ids, if there are any.
ApproveWrites(c, sel, approver) ==
  LET pay == PayIds(sel, approver) IN
  /\ pay # {} => consolidatedInvoices[c] < MaxConsolidated
  /\ approvals' = [i \in InvoiceIds |->
                     IF i \in sel THEN WithApproval(approvals[i], approver) ELSE approvals[i]]
  /\ invoices' = [i \in DOMAIN invoices |->
                    IF i \in sel
                      THEN [invoices[i] EXCEPT !.status = StatusAfterApproval(i, pay)]
                      ELSE invoices[i]]
  /\ consolidatedInvoices' =
       [consolidatedInvoices EXCEPT ![c] = IF pay # {} THEN @ + 1 ELSE @]
  /\ UNCHANGED <<companies, lineItems, expenses, integrationRecords>>

\* The approve request (approve_ids and pay_ids of one PATCH) of administrator approver.
ApproveInvoices(op, c, sel, approver) ==
  /\ sel # {}
  /\ c = CompanyOfAdmin(approver)
  /\ sel \subseteq CompanyInvoices(c)
  /\ \A i \in sel : lock[i] = 0
  /\ IF ~ApproveValid(sel, approver)
       THEN /\ last' = Call(op, SetToSeq(sel), approver, "invalid", 0)
            /\ UNCHANGED dbVars
       ELSE /\ ApproveWrites(c, sel, approver)
            /\ last' = Call(op, SetToSeq(sel), approver, "none", 0)
  /\ UNCHANGED <<lock, procs, probe, answer>>

\* The Approve / Pay now button of one invoice row.
Approve(i, approver) ==
  /\ i \in DOMAIN invoices
  /\ ApproveInvoices("approve", invoices[i].companyId, {i}, approver)

\* "Approve selected invoices" over two or more rows.
BulkApprove(c, sel, approver) ==
  /\ Cardinality(sel) >= 2
  /\ ApproveInvoices("bulkApprove", c, sel, approver)

\* The reason text is stored as typed, the empty text included.
StoredReason_Verbatim(reason) == reason

\* reason.presence: an empty reason text is stored as null.
StoredReason(reason) == IF reason = "" THEN NoReason ELSE reason

\* Any invoice can be rejected, whatever its status.
can_reject_Any(i) == i \in DOMAIN invoices

\* Source states of reject: received and approved.
can_reject(i) == i \in DOMAIN invoices /\ invoices[i].status \in {"received", "approved"}

\* A reject call: the latest-call record with the reason text the request carried.
RejectCall(ids, raised, reason) ==
  [op |-> "reject", ids |-> ids, by |-> 0, raised |-> raised, missing |-> 0, reason |-> reason]

\* The reject request ({ ids, reason } of one PATCH) over a selection of rows.
Reject(c, sel, reason) ==
  /\ sel # {}
  /\ \E a \in Admins : c = CompanyOfAdmin(a)
  /\ sel \subseteq CompanyInvoices(c)
  /\ \A i \in sel : lock[i] = 0
  /\ IF \E i \in sel : ~can_reject(i)
       THEN /\ last' = RejectCall(SetToSeq(sel), "invalid", reason)
            /\ UNCHANGED dbVars
       ELSE /\ invoices' = [i \in DOMAIN invoices |->
                              IF i \in sel
                                THEN [invoices[i] EXCEPT !.status = "rejected",
                                                         !.rejectionReason = StoredReason(reason)]
                                ELSE invoices[i]]
            /\ last' = RejectCall(SetToSeq(sel), "none", reason)
            /\ UNCHANGED <<companies, approvals, lineItems, expenses, integrationRecords, consolidatedInvoices>>
  /\ UNCHANGED <<lock, procs, probe, answer>>

\* The payment collaborator moves a consolidated payment on.
PaymentWrites(i) ==
  /\ i \in DOMAIN invoices
  /\ lock[i] = 0
  /\ \/ /\ invoices[i].status = "payment_pending"
        /\ invoices' = [invoices EXCEPT ![i].status = "processing"]
     \/ /\ invoices[i].status = "processing"
        /\ invoices' = [invoices EXCEPT ![i].status = "paid"]
     \/ /\ invoices[i].status = "processing"
        /\ invoices' = [invoices EXCEPT ![i].status = "failed"]
  /\ UNCHANGED <<companies, approvals, lineItems, expenses, integrationRecords, consolidatedInvoices>>

PaymentProgress(i) ==
  /\ PaymentWrites(i)
  /\ last' = Call("payment", <<>>, 0, "none", 0)
  /\ UNCHANGED <<lock, procs, probe, answer>>

(* --------------------------- specification ---------------------------- *)

\* The company of the seeded invoices: the last one belongs to another company.
SeedCompany(i) == IF i < MaxInvoices THEN 1 ELSE NumCompanies

SeedInvoice(i, byAdmin) ==
  [companyId |-> SeedCompany(i),
   status |-> "received",
   userId |-> ContractorUser,
   createdById |-> IF i \in byAdmin THEN 1 ELSE ContractorUser,
   acceptedAt |-> "null",
   rejectionReason |-> NoReason]

Init ==
  /\ \E n \in 1..MaxQuorum : companies = [c \in Companies |-> [requiredInvoiceApprovals |-> n]]
  /\ \E byAdmin \in SUBSET {i \in InvoiceIds : i > 1 /\ i < MaxInvoices} :
       invoices = [i \in InvoiceIds |-> SeedInvoice(i, byAdmin)]
  /\ approvals = [i \in InvoiceIds |-> [a \in Admins |-> 0]]
  /\ lineItems = [i \in InvoiceIds |-> 1 + (i % 2)]
  /\ expenses = [i \in InvoiceIds |-> i % 2]
  /\ integrationRecords = [i \in InvoiceIds |-> [live |-> 1, deleted |-> 0]]
  /\ consolidatedInvoices = [c \in Companies |-> 0]
  /\ lock = [i \in InvoiceIds |-> 0]
  /\ procs = [p \in Procs |-> IdleProc]
  /\ last = NoCall
  /\ probe = NoProbe
  /\ answer = FALSE

Next ==
  \/ \E i \in InvoiceIds : DeleteInvoice(i)
  \/ \E c \in Companies, ids \in IdLists : DeleteManyInvoices(c, ids)
  \/ \E i \in InvoiceIds, a \in Admins : Approve(i, a)
  \/ \E c \in Companies, sel \in SUBSET InvoiceIds, a \in Admins : BulkApprove(c, sel, a)
  \/ \E c \in Companies, sel \in SUBSET InvoiceIds, r \in Reasons : Reject(c, sel, r)
  \/ \E i \in InvoiceIds : PaymentProgress(i)

Spec == Init /\ [][Next]_vars

\* The requests that name their invoices one by one or as a selection of rows: every request of
\* Next but the deletion of a batch, which leaves the tables as deletions one by one leave them.
NextApproval ==
  \/ \E i \in InvoiceIds : DeleteInvoice(i)
  \/ \E i \in InvoiceIds, a \in Admins : Approve(i, a)
  \/ \E c \in Companies, sel \in SUBSET InvoiceIds, a \in Admins : BulkApprove(c, sel, a)
  \/ \E c \in Companies, sel \in SUBSET InvoiceIds, r \in Reasons : Reject(c, sel, r)
  \/ \E i \in InvoiceIds : PaymentProgress(i)

SpecApproval == Init /\ [][NextApproval]_vars

(* ---------------------- concurrent deletion requests ------------------ *)

\* The orders in which the rows of a set may come back from the database.
RECURSIVE Orderings(_)
Orderings(S) ==
  IF S = {} THEN {<<>>} ELSE UNION {{<<x>> \o q : q \in Orderings(S \ {x})} : x \in S}

LoadedRows(q) == [k \in 1..Len(q) |-> [id |-> q[k], status |-> invoices[q[k]].status]]

\* with_lock without its reload: the block sees the status the invoice was loaded with.
LockedStatus_Stale(p) == procs[p].loaded

\* invoice.with_lock reloads the row FOR UPDATE: the block sees the committed status.
LockedStatus(p) == invoices[procs[p].cur].status

\* A request loads an invoice and builds DeleteInvoice.new(invoice:, deleted_by:).
DeleteRequest(p, i) ==
  /\ procs[p].pc = "idle"
  /\ i \in DOMAIN invoices
  /\ procs' = [procs EXCEPT ![p] =
                 [IdleProc EXCEPT !.pc = "new", !.op = "DeleteInvoice", !.cur = i,
                                  !.loaded = invoices[i].status]]
  /\ UNCHANGED <<dbVars, lock, last, probe, answer>>

\* DeleteInvoice#perform, line 12: invoice.with_lock opens the transaction and locks the row;
\* it waits while another transaction holds the lock and raises when the row is gone.
WithLock(p) ==
  /\ procs[p].pc = "new"
  /\ IF procs[p].cur \notin DOMAIN invoices
       THEN /\ procs' = [procs EXCEPT ![p] =
                           [IdleProc EXCEPT !.pc = "done", !.op = procs[p].op,
                                            !.raised = "RecordNotFound", !.deleted = procs[p].deleted]]
            /\ UNCHANGED lock
       ELSE /\ lock[procs[p].cur] = 0
            /\ lock' = [lock EXCEPT ![procs[p].cur] = p]
            /\ procs' = [procs EXCEPT ![p].pc = "locked", ![p].st = LockedStatus(p)]
  /\ UNCHANGED <<dbVars, last, probe, answer>>

\* The row lock stays with the request after its transaction.
ReleasedLock_Held(p) == lock

\* end of invoice.with_lock: the transaction ends and with it the row lock of the invoice.
ReleasedLock(p) == [lock EXCEPT ![procs[p].cur] = 0]

\* DeleteInvoice#perform, lines 13-24: the block under the lock, then commit and release; a
\* DeleteManyInvoices request goes on to its next invoice.
PerformBlock(p) ==
  /\ procs[p].pc = "locked"
  /\ PerformLocked({procs[p].cur}, [j \in {procs[p].cur} |-> procs[p].st])
  /\ lock' = ReleasedLock(p)
  /\ procs' = [procs EXCEPT ![p] =
                 LET done == [@ EXCEPT !.deleted = IF can_delete(procs[p].st) THEN @ \cup {procs[p].cur} ELSE @,
                                       !.raised = DeleteOutcome(procs[p].st)]
                 IN IF procs[p].queue = <<>>
                      THEN [IdleProc EXCEPT !.pc = "done", !.op = done.op, !.deleted = done.deleted,
                                            !.raised = done.raised]
                      ELSE [done EXCEPT !.pc = "new",
                                        !.cur = Head(procs[p].queue).id,
                                        !.loaded = Head(procs[p].queue).status,
                                        !.st = "none",
                                        !.queue = Tail(procs[p].queue)]]
  /\ UNCHANGED <<last, probe, answer>>

\* DeleteManyInvoices#perform, lines 11-12: the relation and its size check (a COUNT query).
DeleteManyRequest(p, c, ids) ==
  /\ procs[p].pc = "idle"
  /\ procs' = [procs EXCEPT ![p] =
                 IF RaisesRecordNotFound(c, ids)
                   THEN [IdleProc EXCEPT !.pc = "done", !.op = "DeleteManyInvoices", !.raised = "RecordNotFound"]
                   ELSE [IdleProc EXCEPT !.pc = "sized", !.op = "DeleteManyInvoices", !.company = c, !.ids = ids]]
  /\ UNCHANGED <<dbVars, lock, last, probe, answer>>

\* DeleteManyInvoices#perform, line 14: invoices.each loads the relation (a second query).
EachLoad(p) ==
  /\ procs[p].pc = "sized"
  /\ \E q \in Orderings(ResolvedInvoices(procs[p].company, procs[p].ids)) :
       procs' = [procs EXCEPT ![p] =
                   IF q = <<>>
                     THEN [IdleProc EXCEPT !.pc = "done", !.op = "DeleteManyInvoices"]
                     ELSE [@ EXCEPT !.pc = "new", !.ids = <<>>, !.company = 0,
                                    !.cur = q[1],
                                    !.loaded = invoices[q[1]].status,
                                    !.queue = Tail(LoadedRows(q))]]
  /\ UNCHANGED <<dbVars, lock, last, probe, answer>>

\* An approve request of another administrator's session, running between the steps of the
\* deletion requests; it waits for the row locks of the invoices it updates.
ConcurrentApprove(i, approver) ==
  /\ i \in DOMAIN invoices
  /\ invoices[i].companyId = CompanyOfAdmin(approver)
  /\ lock[i] = 0
  /\ ApproveValid({i}, approver)
  /\ ApproveWrites(invoices[i].companyId, {i}, approver)
  /\ UNCHANGED <<lock, procs, last, probe, answer>>

ConcurrentPayment(i) ==
  /\ PaymentWrites(i)
  /\ UNCHANGED <<lock, procs, last, probe, answer>>

NextConcurrent ==
  \/ \E p \in Procs, i \in InvoiceIds : DeleteRequest(p, i)
  \/ \E p \in Procs : WithLock(p)
  \/ \E p \in Procs : PerformBlock(p)
  \/ \E p \in Procs, c \in Companies, ids \in IdLists : DeleteManyRequest(p, c, ids)
  \/ \E p \in Procs : EachLoad(p)
  \/ \E i \in InvoiceIds, a \in Admins : ConcurrentApprove(i, a)
  \/ \E i \in InvoiceIds : ConcurrentPayment(i)

\* The concurrent requests work on the first company's invoices, none created by an administrator.
InitConcurrent ==
  /\ companies = [c \in Companies |-> [requiredInvoiceApprovals |-> MaxQuorum]]
  /\ invoices = [i \in {j \in InvoiceIds : SeedCompany(j) = 1} |-> SeedInvoice(i, {})]
  /\ approvals = [i \in InvoiceIds |-> [a \in Admins |-> 0]]
  /\ lineItems = [i \in InvoiceIds |-> IF i \in DOMAIN invoices THEN 1 + (i % 2) ELSE 0]
  /\ expenses = [i \in InvoiceIds |-> IF i \in DOMAIN invoices THEN i % 2 ELSE 0]
  /\ integrationRecords = [i \in InvoiceIds |-> [live |-> IF i \in DOMAIN invoices THEN 1 ELSE 0, deleted |-> 0]]
  /\ consolidatedInvoices = [c \in Companies |-> 0]
  /\ lock = [i \in InvoiceIds |-> 0]
  /\ procs = [p \in Procs |-> IdleProc]
  /\ last = NoCall
  /\ probe = NoProbe
  /\ answer = FALSE

SpecConcurrent == InitConcurrent /\ [][NextConcurrent]_vars

(* ------------------- evaluation of the pure predicates ---------------- *)

ProbeInvoices ==
  [status : Statuses, requiresAcceptanceByPayee : BOOLEAN, approvals : [Admins -> 0..1]]

\* One render of a row: useIsPayable()(invoice) for the current user and company.
EvalIsPayable(invoice, user, required) ==
  /\ probe' = [fn |-> "useIsPayable", invoice |-> invoice, user |-> user, required |-> required]
  /\ answer' = useIsPayable(invoice, user, required)
  /\ UNCHANGED <<dbVars, lock, procs, last>>

NextPayable == \E invoice \in ProbeInvoices, user \in Admins, required \in 1..MaxQuorum : EvalIsPayable(invoice, user, required)

SpecPayable == Init /\ [][NextPayable]_vars

\* Actionable whatever the status, as long as the current user has not approved.
useIsActionable_AnyStatus(invoice, user, requiredInvoiceApprovals) ==
  \/ useIsPayable(invoice, user, requiredInvoiceApprovals)
  \/ ~useIsApprovedByCurrentUser(invoice, user)

\* useIsActionable()(invoice) for the current user and company
useIsActionable(invoice, user, requiredInvoiceApprovals) ==
  \/ useIsPayable(invoice, user, requiredInvoiceApprovals)
  \/ /\ ~useIsApprovedByCurrentUser(invoice, user)
     /\ invoice.status \in {"received", "approved"}

\* One render of a row: useIsActionable()(invoice) for the current user and company.
EvalIsActionable(invoice, user, required) ==
  /\ probe' = [fn |-> "useIsActionable", invoice |-> invoice, user |-> user, required |-> required]
  /\ answer' = useIsActionable(invoice, user, required)
  /\ UNCHANGED <<dbVars, lock, procs, last>>

NextActionable ==
  \E invoice \in ProbeInvoices, user \in Admins, required \in 1..MaxQuorum : EvalIsActionable(invoice, user, required)

SpecActionable == Init /\ [][NextActionable]_vars

(* --------------------- one-off invoices of the router ------------------ *)

\* A column that holds no value (SQL NULL) where the column is a number.
NullNumber == 0 - 1

\* const BASE_FLEXILE_FEE_CENTS = BigInt(50)
BASE_FLEXILE_FEE_CENTS == 50

\* const MAX_FLEXILE_FEE_CENTS = BigInt(1500)
MAX_FLEXILE_FEE_CENTS == 1500

\* BigInt(Math.round(PERCENT_FLEXILE_FEE * 100)) with PERCENT_FLEXILE_FEE = 1.5
PERCENT_FLEXILE_FEE_TIMES_100 == 150

\* Total amounts of the one-off invoices, in cents.
TotalAmounts == {0, MaxTotalCents}

\* MINIMUM_EQUITY_PERCENTAGE .. MAXIMUM_EQUITY_PERCENTAGE, sampled.
EquityPercentages == {0, MidEquityPercentage, MAXIMUM_EQUITY_PERCENTAGE}

\* The users who call the router: the administrators and the contractor.
Users == Admins \cup {ContractorUser}

\* The users with a companyContractors row in company c: the contractor and, in the first
\* company, the last administrator as well.
Contractors(c) == IF c = 1 THEN {NumAdmins, ContractorUser} ELSE {ContractorUser}

\* Every caller passes for an administrator of the company.
IsCompanyAdministrator_Anyone(c, user) == TRUE

\* ctx.companyAdministrator is set.
IsCompanyAdministrator(c, user) == user \in Admins /\ CompanyOfAdmin(user) = c

\* The allowed-range columns of an invoice: both empty, or a range.
AllowedRanges ==
  {[min |-> NullNumber, max |-> NullNumber], [min |-> 0, max |-> MidEquityPercentage]}

\* invoiceInputSchema: the input of createAsAdmin.
InvoiceInputs ==
  [userExternalId : Users \cup {UnknownId},
   totalAmountCents : TotalAmounts,
   equityPercentage : EquityPercentages,
   range : AllowedRanges]

\* calculateInvoiceEquity signals failure by returning nothing.
NoEquityResult == [failed |-> TRUE, equityCents |-> 0, equityOptions |-> 0, equityPercentage |-> 0]

\* What calculateInvoiceEquity may answer: a failure, or a split for the requested percentage
\* or for a percentage of zero (no options would be granted).
EquityResults(serviceAmountCents, equityCompensationEnabled, providedEquityPercentage) ==
  IF ~equityCompensationEnabled
    THEN {[failed |-> FALSE, equityCents |-> 0, equityOptions |-> 0, equityPercentage |-> 0]}
    ELSE {NoEquityResult} \cup
         {[failed |-> FALSE,
           equityCents |-> (serviceAmountCents * pct) \div 100,
           equityOptions |-> IF pct = 0 THEN 0 ELSE 1,
           equityPercentage |-> pct] : pct \in {providedEquityPercentage, 0}}

\* The outcome of a router call: the company and the caller of its context, the invoice it read
\* or inserted, the equity percentage of its input, the error it threw (code and message), what
\* the equity calculator did, the percentage the calculator returned and the number of emails
\* the call sent.
RouterCall(op, c, by, id, requested, raised, message, calc, returned, sent) ==
  [op |-> op, ids |-> IF id = 0 THEN <<>> ELSE <<id>>, by |-> by, raised |-> raised, missing |-> 0,
   company |-> c, requested |-> requested, message |-> message, calc |-> calc,
   returned |-> returned, sent |-> sent]

\* throw new TRPCError({ code, message }) before any write.
Throws(op, c, by, id, requested, code, message, calc, returned) ==
  /\ last' = RouterCall(op, c, by, id, requested, code, message, calc, returned, 0)
  /\ UNCHANGED dbVars

\* What the equity calculator did in a call that reached it.
CalcOutcome(equityResult) == IF equityResult.failed THEN "failed" ELSE "answered"

\* The percentage the equity calculator returned, if it returned a split.
Returned(equityResult) == IF equityResult.failed THEN NullNumber ELSE equityResult.equityPercentage

\* A percentage that differs from the requested one passes for the requested one.
PercentageSubstituted_Ignored(equityResult, requested) == FALSE

\* if (equityResult.equityPercentage !== input.equityPercentage)
PercentageSubstituted(equityResult, requested) == equityResult.equityPercentage # requested

\* The calculator's failure goes unnoticed.
EquityFailed_Ignored(equityResult) == FALSE

\* if (!equityResult)
EquityFailed(equityResult) == equityResult.failed

\* The whole total is paid in cash, whatever the equity part is.
CashAmount_Total(totalAmountCents, equityAmountInCents) == totalAmountCents

\* const cashAmountInCents = totalAmountCents - equityAmountInCents
CashAmount(totalAmountCents, equityAmountInCents) == totalAmountCents - equityAmountInCents

\* The requested percentage of the input is stored, not the computed one.
StoredEquityPercentage_FromInput(requested, computed) == requested

\* values({ ...values, ..., equityPercentage, ... }): the computed percentage overrides the
\* percentage of the input.
StoredEquityPercentage(requested, computed) == computed

\* An invoice number: the text before its last run of digits, and that run (leading zeros kept).
\* INITIAL_ADMIN_INVOICE_NUMBER = "O-0001"
INITIAL_ADMIN_INVOICE_NUMBER == [prefix |-> "O-", digits |-> <<0, 0, 0, 1>>]

\* parseInt(digits, 10)
RECURSIVE ParseInt(_)
ParseInt(digits) ==
  IF digits = <<>> THEN 0 ELSE 10 * ParseInt(SubSeq(digits, 1, Len(digits) - 1)) + digits[Len(digits)]

\* nextInvoiceId.toString()
RECURSIVE ToDigits(_)
ToDigits(n) == IF n < 10 THEN <<n>> ELSE Append(ToDigits(n \div 10), n % 10)

\* .padStart(width, "0")
PadStart(digits, width) ==
  IF Len(digits) >= width THEN digits ELSE [k \in 1..(width - Len(digits)) |-> 0] \o digits

\* The order of the database on two invoice numbers with the same prefix: the order of their
\* texts, character by character, a text being greater than each of its proper prefixes.
TextLess(a, b) ==
  \E k \in 1..Len(b) :
    /\ \A j \in 1..(k - 1) : j <= Len(a) /\ a[j] = b[j]
    /\ IF k <= Len(a) THEN a[k] < b[k] ELSE TRUE

\* The one-off invoices of the user in the company: the where clause of the query.
AdminInvoicesOf(c, user) ==
  {i \in DOMAIN invoices :
     invoices[i].companyId = c /\ invoices[i].userId = user /\ invoices[i].invoiceType = "other"}

\* getNextAdminInvoiceNumber(companyId, userId)
getNextAdminInvoiceNumber(c, user) ==
  IF AdminInvoicesOf(c, user) = {}
    THEN INITIAL_ADMIN_INVOICE_NUMBER
    ELSE LET lastAdminInvoice ==
               CHOOSE i \in AdminInvoicesOf(c, user) :
                 \A j \in AdminInvoicesOf(c, user) :
                   ~TextLess(invoices[i].invoiceNumber.digits, invoices[j].invoiceNumber.digits)
             digits == invoices[lastAdminInvoice].invoiceNumber.digits
         IN IF digits = <<>> \/ ParseInt(digits) = 0
              THEN INITIAL_ADMIN_INVOICE_NUMBER
              ELSE [prefix |-> invoices[lastAdminInvoice].invoiceNumber.prefix,
                    digits |-> PadStart(ToDigits(ParseInt(digits) + 1), Len(digits))]

\* The fee without its maximum.
getFlexileFeeCents_Uncapped(totalAmountCents) ==
  BASE_FLEXILE_FEE_CENTS + (totalAmountCents * PERCENT_FLEXILE_FEE_TIMES_100) \div 10000

\* getFlexileFeeCents(totalAmountCents), for a total that is not negative
getFlexileFeeCents(totalAmountCents) ==
  LET feeCents == BASE_FLEXILE_FEE_CENTS + (totalAmountCents * PERCENT_FLEXILE_FEE_TIMES_100) \div 10000
  IN IF feeCents > MAX_FLEXILE_FEE_CENTS THEN MAX_FLEXILE_FEE_CENTS ELSE feeCents

\* The outcome of a successful createAsAdmin call: as any router call, with the contractor the
\* input named; one email is sent.
CreatedCall(c, caller, id, input, calc, returned) ==
  [op |-> "createAsAdmin", ids |-> <<id>>, by |-> caller, raised |-> "none", missing |-> 0,
   company |-> c, requested |-> input.equityPercentage, message |-> "", calc |-> calc,
   returned |-> returned, sent |-> 1, payee |-> input.userExternalId]

\* An invoice an administrator creates starts out approved.
CreatedStatus_Approved == "approved"

\* status: "received" in the values of the insert
CreatedStatus == "received"

\* How the transaction of createAsAdmin ends: both inserts succeed, or one of them throws.
InsertOutcomes == {"committed", "invoiceInsertFailed", "lineItemInsertFailed"}

\* The line item of a one-off invoice: quantity 1 at a pay rate of the whole total (a total in
\* cents is far below 2^53, where Number() is exact).
LineItem(totalAmountCents) == [quantity |-> 1, payRateInSubunits |-> totalAmountCents]

\* The inserts are not in one transaction: the invoice row stays when the line item fails.
RolledBack_InvoiceKept(id, row, outcome) ==
  /\ invoices' = IF outcome = "lineItemInsertFailed"
                   THEN [i \in (DOMAIN invoices) \cup {id} |-> IF i = id THEN row ELSE invoices[i]]
                   ELSE invoices
  /\ UNCHANGED <<companies, approvals, lineItems, expenses, integrationRecords, consolidatedInvoices>>

\* db.transaction: a throw inside the callback rolls back what the callback wrote.
RolledBack(id, row, outcome) == UNCHANGED dbVars

\* The row id the next insert gets.
NextInvoiceId == IF DOMAIN invoices = {} THEN 1 ELSE 1 + CHOOSE m \in DOMAIN invoices : \A j \in DOMAIN invoices : j <= m

\* The insert of the invoice and of its line item in one transaction, then the email.
InsertOneOff(c, caller, input, invoiceNumber, equity, calc, returned) ==
  LET id == NextInvoiceId
      row == [companyId |-> c,
              invoiceNumber |-> invoiceNumber,
              flexileFeeCents |-> getFlexileFeeCents(input.totalAmountCents),
              status |-> CreatedStatus,
              userId |-> input.userExternalId,
              createdById |-> caller,
              acceptedAt |-> "null",
              rejectionReason |-> NoReason,
              invoiceType |-> "other",
              minAllowedEquityPercentage |-> input.range.min,
              maxAllowedEquityPercentage |-> input.range.max,
              equityPercentage |-> StoredEquityPercentage(input.equityPercentage, equity.equityPercentage),
              equityAmountInCents |-> equity.equityCents,
              equityAmountInOptions |-> equity.equityOptions,
              totalAmountInUsdCents |-> input.totalAmountCents,
              cashAmountInCents |-> CashAmount(input.totalAmountCents, equity.equityCents)]
  IN /\ id <= MaxInvoices
     /\ \E outcome \in InsertOutcomes :
          IF outcome = "committed"
            THEN /\ invoices' = [i \in (DOMAIN invoices) \cup {id} |-> IF i = id THEN row ELSE invoices[i]]
                 /\ lineItems' = [lineItems EXCEPT ![id] = <<LineItem(input.totalAmountCents)>>]
                 /\ last' = CreatedCall(c, caller, id, input, calc, returned)
                 /\ UNCHANGED <<companies, approvals, expenses, integrationRecords, consolidatedInvoices>>
            ELSE /\ RolledBack(id, row, outcome)
                 /\ last' = RouterCall("createAsAdmin", c, caller, 0, input.equityPercentage,
                                       "INTERNAL_SERVER_ERROR", "", calc, returned, 0)

\* The equity of an invoice of a company without equity compensation (the initial values of
\* equityAmountInCents, equityAmountInOptions and equityPercentage).
NoEquity == [failed |-> FALSE, equityCents |-> 0, equityOptions |-> 0, equityPercentage |-> 0]

\* The lookups of createAsAdmin before it reads the invoice number: the code it throws, if any.
LookupError(c, caller, input) ==
  IF ~IsCompanyAdministrator(c, caller) THEN "FORBIDDEN"
  ELSE IF input.userExternalId \notin Users THEN "NOT_FOUND"
  ELSE IF input.userExternalId \notin Contractors(c) THEN "NOT_FOUND"
  ELSE "none"

\* createAsAdmin from the equity calculation on, with the invoice number it has read.
createWithNumber(c, caller, input, invoiceNumber) ==
  IF ~companies[c].equityCompensationEnabled
    THEN InsertOneOff(c, caller, input, invoiceNumber, NoEquity, "notCalled", NullNumber)
    ELSE \E equityResult \in EquityResults(input.totalAmountCents, TRUE, input.equityPercentage) :
           IF EquityFailed(equityResult)
             THEN Throws("createAsAdmin", c, caller, 0, input.equityPercentage, "BAD_REQUEST",
                         "Recipient has insufficient unvested equity", CalcOutcome(equityResult), Returned(equityResult))
             ELSE IF PercentageSubstituted(equityResult, input.equityPercentage)
             THEN Throws("createAsAdmin", c, caller, 0, input.equityPercentage, "BAD_REQUEST", "No options would be granted",
                         CalcOutcome(equityResult), Returned(equityResult))
             ELSE InsertOneOff(c, caller, input, invoiceNumber, equityResult, CalcOutcome(equityResult),
                               Returned(equityResult))

\* invoicesRouter.createAsAdmin
createAsAdmin(c, caller, input) ==
  /\ IF LookupError(c, caller, input) # "none"
       THEN Throws("createAsAdmin", c, caller, 0, input.equityPercentage, LookupError(c, caller, input), "",
                   "notCalled", NullNumber)
       ELSE createWithNumber(c, caller, input, getNextAdminInvoiceNumber(c, input.userExternalId))
  /\ UNCHANGED <<lock, procs, probe, answer>>

\* invoice.minAllowedEquityPercentage !== null && invoice.maxAllowedEquityPercentage !== null
HasAllowedRange(invoice) ==
  invoice.minAllowedEquityPercentage # NullNumber /\ invoice.maxAllowedEquityPercentage # NullNumber

\* Only a percentage above the maximum is out of range.
OutOfRange_AboveOnly(invoice, equityPercentage) ==
  HasAllowedRange(invoice) /\ equityPercentage > invoice.maxAllowedEquityPercentage

\* The range check of acceptPayment: both bounds are set and the percentage is below the minimum
\* or above the maximum.
OutOfRange(invoice, equityPercentage) ==
  /\ HasAllowedRange(invoice)
  /\ \/ equityPercentage < invoice.minAllowedEquityPercentage
     \/ equityPercentage > invoice.maxAllowedEquityPercentage

\* The update of acceptPayment: the acceptance stamp and, for an invoice with an allowed range,
\* the split the payee chose.
AcceptedRow(invoice, equityResult) ==
  IF HasAllowedRange(invoice)
    THEN [invoice EXCEPT !.acceptedAt = "set",
                         !.equityPercentage = equityResult.equityPercentage,
                         !.cashAmountInCents = CashAmount(invoice.totalAmountInUsdCents, equityResult.equityCents),
                         !.equityAmountInCents = equityResult.equityCents,
                         !.equityAmountInOptions = equityResult.equityOptions]
    ELSE [invoice EXCEPT !.acceptedAt = "set"]

\* invoicesRouter.acceptPayment
acceptPayment(c, caller, id, equityPercentage) ==
  /\ IF caller \notin Contractors(c)
       THEN Throws("acceptPayment", c, caller, 0, equityPercentage, "FORBIDDEN", "", "notCalled", NullNumber)
       ELSE IF id \notin DOMAIN invoices \/ invoices[id].companyId # c
       THEN Throws("acceptPayment", c, caller, 0, equityPercentage, "NOT_FOUND", "", "notCalled", NullNumber)
       ELSE IF invoices[id].userId # caller
       THEN Throws("acceptPayment", c, caller, id, equityPercentage, "FORBIDDEN", "", "notCalled", NullNumber)
       ELSE IF invoices[id].invoiceType # "other"
       THEN Throws("acceptPayment", c, caller, id, equityPercentage, "FORBIDDEN", "", "notCalled", NullNumber)
       ELSE IF OutOfRange(invoices[id], equityPercentage)
       THEN Throws("acceptPayment", c, caller, id, equityPercentage, "BAD_REQUEST", "Equity percentage is out of range", "notCalled", NullNumber)
       ELSE \E equityResult \in EquityResults(invoices[id].totalAmountInUsdCents,
                                               companies[c].equityCompensationEnabled, equityPercentage) :
              IF EquityFailed(equityResult)
                THEN Throws("acceptPayment", c, caller, id, equityPercentage, "BAD_REQUEST",
                            "Error calculating equity. Please contact the administrator.", CalcOutcome(equityResult), Returned(equityResult))
                ELSE IF PercentageSubstituted(equityResult, equityPercentage)
                THEN Throws("acceptPayment", c, caller, id, equityPercentage, "BAD_REQUEST", "No options would be granted",
                            CalcOutcome(equityResult), Returned(equityResult))
                ELSE /\ invoices' = [invoices EXCEPT ![id] = AcceptedRow(invoices[id], equityResult)]
                     /\ last' = RouterCall("acceptPayment", c, caller, id, equityPercentage, "none", "",
                                           CalcOutcome(equityResult), Returned(equityResult), 0)
                     /\ UNCHANGED <<companies, approvals, lineItems, expenses, integrationRecords, consolidatedInvoices>>
  /\ UNCHANGED <<lock, procs, probe, answer>>

\* The inputs of createAsAdmin that give different calls: a call that throws at a lookup has
\* read nothing of its input and records only the percentage, so among the inputs it refuses
\* one per percentage is taken (an unknown contractor, the whole total, no range).
CreateInputsOf(c, caller) ==
  {input \in InvoiceInputs :
     \/ LookupError(c, caller, input) = "none"
     \/ /\ input.userExternalId = UnknownId
        /\ input.totalAmountCents = MaxTotalCents
        /\ input.range.min = NullNumber}

\* The ids of acceptPayment that give different calls: a caller without a contractor row is
\* refused before the id is read, and every id that names no invoice of the company is not
\* found the way the unknown id is.
AcceptIdsOf(c, caller) ==
  IF caller \notin Contractors(c)
    THEN {UnknownId}
    ELSE {UnknownId} \cup {id \in DOMAIN invoices : invoices[id].companyId = c}

NextRouter ==
  \/ \E c \in Companies, caller \in Users :
       \E input \in CreateInputsOf(c, caller) : createAsAdmin(c, caller, input)
  \/ \E c \in Companies, caller \in Users :
       \E id \in AcceptIdsOf(c, caller), pct \in EquityPercentages : acceptPayment(c, caller, id, pct)

\* An invoice the contractor submitted for services: all of it is paid in cash.
SeedServicesInvoice ==
  [companyId |-> 1, status |-> "received", userId |-> ContractorUser, createdById |-> ContractorUser,
   invoiceNumber |-> [prefix |-> "", digits |-> <<1>>],
   flexileFeeCents |-> getFlexileFeeCents(MaxTotalCents),
   acceptedAt |-> "null", rejectionReason |-> NoReason, invoiceType |-> "services",
   minAllowedEquityPercentage |-> NullNumber, maxAllowedEquityPercentage |-> NullNumber,
   equityPercentage |-> 0, equityAmountInCents |-> 0, equityAmountInOptions |-> 0,
   totalAmountInUsdCents |-> MaxTotalCents, cashAmountInCents |-> MaxTotalCents]

\* A one-off invoice an administrator created earlier for the contractor, with an allowed range,
\* not yet accepted: half of it in equity where the company has equity compensation.
SeedOneOffInvoice(enabled) ==
  LET pct == IF enabled THEN MidEquityPercentage ELSE 0
      equityCents == (MaxTotalCents * pct) \div 100
  IN [companyId |-> 1, status |-> "received", userId |-> ContractorUser, createdById |-> 1,
      invoiceNumber |-> INITIAL_ADMIN_INVOICE_NUMBER,
      flexileFeeCents |-> getFlexileFeeCents(MaxTotalCents),
      acceptedAt |-> "null", rejectionReason |-> NoReason, invoiceType |-> "other",
      minAllowedEquityPercentage |-> MidEquityPercentage,
      maxAllowedEquityPercentage |-> MAXIMUM_EQUITY_PERCENTAGE,
      equityPercentage |-> pct, equityAmountInCents |-> equityCents,
      equityAmountInOptions |-> IF pct = 0 THEN 0 ELSE 1,
      totalAmountInUsdCents |-> MaxTotalCents,
      cashAmountInCents |-> MaxTotalCents - equityCents]

\* The first company with or without equity compensation, one invoice for services and one
\* one-off invoice; further one-off invoices are yet to be inserted. One approval suffices in
\* either company, so an invoice nobody has approved yet is within one approval of its quorum.
InitRouter ==
  /\ \E enabled \in BOOLEAN :
       companies = [c \in Companies |->
                      [requiredInvoiceApprovals |-> 1, equityCompensationEnabled |-> enabled]]
  /\ invoices = [i \in {1, 2} |->
                   IF i = 1 THEN SeedServicesInvoice
                            ELSE SeedOneOffInvoice(companies[1].equityCompensationEnabled)]
  /\ approvals = [i \in InvoiceIds |-> [a \in Admins |-> 0]]
  /\ lineItems = [i \in InvoiceIds |->
                    IF i \in DOMAIN invoices THEN <<LineItem(invoices[i].totalAmountInUsdCents)>> ELSE <<>>]
  /\ expenses = [i \in InvoiceIds |-> 0]
  /\ integrationRecords = [i \in InvoiceIds |-> [live |-> 0, deleted |-> 0]]
  /\ consolidatedInvoices = [c \in Companies |-> 0]
  /\ lock = [i \in InvoiceIds |-> 0]
  /\ procs = [p \in Procs |-> IdleProc]
  /\ last = NoCall
  /\ probe = NoProbe
  /\ answer = FALSE

SpecRouter == InitRouter /\ [][NextRouter]_vars

(* --------------------------- invoice numbers --------------------------- *)

\* The inputs of the calls that are told apart by their contractor only: the whole total in
\* cash, no allowed range.
NumberInputs ==
  {input \in InvoiceInputs :
     /\ input.totalAmountCents = MaxTotalCents
     /\ input.equityPercentage = 0
     /\ input.range.min = NullNumber}

\* The digit runs of the highest one-off invoice number the contractor has so far: the first
\* number, one before a carry, and the last number of the original width.
SeededDigits == {<<0, 0, 0, 1>>, <<0, 0, 0, 9>>, <<9, 9, 9, 9>>}

\* A one-off invoice of the contractor from an earlier call, all in cash.
SeedNumberedInvoice(digits) ==
  [SeedOneOffInvoice(FALSE) EXCEPT !.invoiceNumber = [prefix |-> "O-", digits |-> digits]]

NextNumbers ==
  \E c \in Companies, caller \in Users, input \in NumberInputs : createAsAdmin(c, caller, input)

\* No one-off invoice yet, or one the contractor got earlier; the other rows of those earlier
\* calls are gone.
InitNumbers ==
  /\ \E enabled \in BOOLEAN :
       companies = [c \in Companies |->
                      [requiredInvoiceApprovals |-> 1, equityCompensationEnabled |-> enabled]]
  /\ \/ invoices = [i \in {} |-> SeedServicesInvoice]
     \/ \E digits \in SeededDigits : invoices = [i \in {1} |-> SeedNumberedInvoice(digits)]
  /\ approvals = [i \in InvoiceIds |-> [a \in Admins |-> 0]]
  /\ lineItems = [i \in InvoiceIds |->
                    IF i \in DOMAIN invoices THEN <<LineItem(invoices[i].totalAmountInUsdCents)>> ELSE <<>>]
  /\ expenses = [i \in InvoiceIds |-> 0]
  /\ integrationRecords = [i \in InvoiceIds |-> [live |-> 0, deleted |-> 0]]
  /\ consolidatedInvoices = [c \in Companies |-> 0]
  /\ lock = [i \in InvoiceIds |-> 0]
  /\ procs = [p \in Procs |-> IdleProc]
  /\ last = NoCall
  /\ probe = NoProbe
  /\ answer = FALSE

SpecNumbers == InitNumbers /\ [][NextNumbers]_vars

\* ---- The platform fee of a created invoice ----

MaxLowLevel == 1
MaxOverLevels == 1
MaxFeeInvoices == 2

\* The level at which the fee reaches MAX_FLEXILE_FEE_CENTS.
CapLevel == MAX_FLEXILE_FEE_CENTS - BASE_FLEXILE_FEE_CENTS

\* The least total whose percentage part is k cents.
Threshold(k) == (k * 10000 + PERCENT_FLEXILE_FEE_TIMES_100 - 1) \div PERCENT_FLEXILE_FEE_TIMES_100

\* Totals on both sides of each step of the fee: the first steps, and the steps around the cap.
FeeTotals ==
  {t \in {Threshold(k) - r : k \in (0..MaxLowLevel) \cup ((CapLevel - 1)..(CapLevel + MaxOverLevels)),
                             r \in {0, 1}} : t >= 0}

\* Inputs of createAsAdmin for the contractor, all in cash, of every sampled total.
FeeInputs ==
  {[userExternalId |-> ContractorUser, totalAmountCents |-> t, equityPercentage |-> 0,
    range |-> [min |-> NullNumber, max |-> NullNumber]] : t \in FeeTotals}

\* Up to MaxFeeInvoices calls; of the inputs a call refuses at a lookup, one is taken.
NextFee ==
  \E c \in Companies, caller \in Users :
    \E input \in FeeInputs :
      /\ Cardinality(DOMAIN invoices) < MaxFeeInvoices
      /\ LookupError(c, caller, input) = "none" \/ input.totalAmountCents = 0
      /\ createAsAdmin(c, caller, input)

\* No invoice yet.
InitFee == InitNumbers /\ DOMAIN invoices = {}

SpecFee == InitFee /\ [][NextFee]_vars

\* createAsAdmin up to line 132: the lookups, then the invoice number is read; the request
\* keeps it while other requests run.
ReadInvoiceNumber(p, c, caller, input) ==
  /\ procs[p].pc = "idle"
  /\ IF LookupError(c, caller, input) # "none"
       THEN /\ Throws("createAsAdmin", c, caller, 0, input.equityPercentage, LookupError(c, caller, input), "",
                       "notCalled", NullNumber)
            /\ UNCHANGED procs
       ELSE /\ procs' = [procs EXCEPT ![p] =
                           [IdleProc EXCEPT !.pc = "numbered", !.op = "createAsAdmin", !.company = c,
                                            !.by = caller, !.input = input,
                                            !.invoiceNumber = getNextAdminInvoiceNumber(c, input.userExternalId)]]
            /\ UNCHANGED <<dbVars, last>>
  /\ UNCHANGED <<lock, probe, answer>>

\* createAsAdmin from line 135 on: the equity calculation and the insert, with the number read
\* before.
InsertWithNumber(p) ==
  /\ procs[p].pc = "numbered"
  /\ createWithNumber(procs[p].company, procs[p].by, procs[p].input, procs[p].invoiceNumber)
  /\ procs' = [procs EXCEPT ![p] = IdleProc]
  /\ UNCHANGED <<lock, probe, answer>>

NextNumbersConcurrent ==
  \/ \E p \in Procs, c \in Companies, caller \in Users, input \in NumberInputs :
       ReadInvoiceNumber(p, c, caller, input)
  \/ \E p \in Procs : InsertWithNumber(p)

\* Concurrent createAsAdmin requests, while every number of the contractor keeps the original
\* width.
\* As InitNumbers, with the numbers so far of the original width and before a carry.
InitNumbersConcurrent ==
  /\ InitNumbers
  /\ \A i \in DOMAIN invoices : ParseInt(invoices[i].invoiceNumber.digits) < 10

SpecNumbersConcurrent == InitNumbersConcurrent /\ [][NextNumbersConcurrent]_vars

(* ------------------------------- locking ------------------------------- *)

NextLocking ==
  \/ \E p \in Procs, i \in InvoiceIds : DeleteRequest(p, i)
  \/ \E p \in Procs : WithLock(p)
  \/ \E p \in Procs : PerformBlock(p)
  \/ \E p \in Procs, c \in Companies, ids \in IdLists : DeleteManyRequest(p, c, ids)
  \/ \E p \in Procs : EachLoad(p)

\* The deletion requests alone, each running on: a request that can take its next step
\* eventually takes it, and the database grants a free row lock to a request that waits for it.
SpecLocking ==
  /\ InitConcurrent
  /\ [][NextLocking]_vars
  /\ \A p \in Procs : WF_vars(WithLock(p)) /\ WF_vars(PerformBlock(p)) /\ WF_vars(EachLoad(p))

(* ------------------------------- failures ------------------------------ *)

\* The writes of the block of DeleteInvoice#perform, in the order of lines 16-23.
PerformSteps ==
  <<"invoice_approvals.destroy_all", "invoice_line_items.destroy_all", "invoice_expenses.destroy_all",
    "integration_records.mark_deleted!", "invoice.destroy!">>

\* The writes of the first n steps of the block on invoice i.
WritesOfSteps(i, n) ==
  /\ approvals' = IF n >= 1 THEN [approvals EXCEPT ![i] = [a \in Admins |-> 0]] ELSE approvals
  /\ lineItems' = IF n >= 2 THEN [lineItems EXCEPT ![i] = 0] ELSE lineItems
  /\ expenses' = IF n >= 3 THEN [expenses EXCEPT ![i] = 0] ELSE expenses
  /\ integrationRecords' = IF n >= 4 THEN [integrationRecords EXCEPT ![i] = MarkDeleted(@)]
                                     ELSE integrationRecords
  /\ invoices' = IF n >= Len(PerformSteps) THEN RemainingInvoices({i}) ELSE invoices
  /\ UNCHANGED <<companies, consolidatedInvoices>>

\* The block runs outside a transaction: what the steps before the failing one wrote stays.
Unwind_WritesStay(i, failed) == WritesOfSteps(i, failed - 1)

\* invoice.with_lock runs the block in a transaction: an exception raised in the block rolls
\* back every write of the steps before it.
Unwind(i, failed) == UNCHANGED dbVars

\* DeleteInvoice#perform, lines 16-23, where the step numbered failed raises: the transaction is
\* rolled back, the lock is released and the exception leaves perform.
PerformBlockFails(p, failed) ==
  /\ procs[p].pc = "locked"
  /\ can_delete(procs[p].st)
  /\ Unwind(procs[p].cur, failed)
  /\ lock' = ReleasedLock(p)
  /\ procs' = [procs EXCEPT ![p] = [@ EXCEPT !.pc = "done", !.raised = PerformSteps[failed], !.queue = <<>>]]
  /\ UNCHANGED <<last, probe, answer>>

NextFailures ==
  \/ \E p \in Procs, i \in InvoiceIds : DeleteRequest(p, i)
  \/ \E p \in Procs : WithLock(p)
  \/ \E p \in Procs : PerformBlock(p)
  \/ \E p \in Procs, failed \in 1..Len(PerformSteps) : PerformBlockFails(p, failed)
  \/ \E i \in InvoiceIds, a \in Admins : ConcurrentApprove(i, a)

SpecFailures == InitConcurrent /\ [][NextFailures]_vars

(* ------------------------------- queries ------------------------------ *)

\* The companyContractors row of user u in company c.
ContractorIdOf(c, u) == (c - 1) * (NumAdmins + 1) + u

\* invoices.companyContractorId
CompanyContractorId(invoice) == ContractorIdOf(invoice.companyId, invoice.userId)

\* The contractorId of the input of list: absent (0) or the id of a contractor.
ContractorIdInputs == {0} \cup {ContractorIdOf(c, u) : c \in Companies, u \in Users}

\* The status of the input of list: absent, or an array of statuses.
StatusInputs ==
  {[given |-> FALSE, statuses |-> {}],
   [given |-> TRUE, statuses |-> {"received"}],
   [given |-> TRUE, statuses |-> {"paid", "failed"}]}

\* What a query hands back: the rows it returns, or the error it throws.
Returns(rows) == [raised |-> "none", rows |-> rows]

QueryThrows(code) == [raised |-> code, rows |-> {}]

\* The where clause of list.
ListedRows(c, contractorId, status) ==
  {i \in DOMAIN invoices :
     /\ invoices[i].companyId = c
     /\ contractorId # 0 => CompanyContractorId(invoices[i]) = contractorId
     /\ status.given => invoices[i].status \in status.statuses}

\* invoicesRouter.list
list(c, caller, contractorId, status) ==
  /\ probe' = [fn |-> "list", company |-> c, by |-> caller, contractorId |-> contractorId, status |-> status]
  /\ answer' = IF /\ ~IsCompanyAdministrator(c, caller)
                  /\ ~(caller \in Contractors(c) /\ contractorId = ContractorIdOf(c, caller))
                 THEN QueryThrows("FORBIDDEN")
                 ELSE Returns(ListedRows(c, contractorId, status))
  /\ UNCHANGED <<dbVars, lock, procs, last>>

\* get without the contractor condition: any invoice of the company is found.
FoundRows_AnyContractor(c, caller, id) ==
  {i \in DOMAIN invoices : i = id /\ invoices[i].companyId = c}

\* The where clause of get.
FoundRows(c, caller, id) ==
  {i \in DOMAIN invoices :
     /\ i = id
     /\ invoices[i].companyId = c
     /\ ~IsCompanyAdministrator(c, caller) => CompanyContractorId(invoices[i]) = ContractorIdOf(c, caller)}

\* invoicesRouter.get
get(c, caller, id) ==
  /\ probe' = [fn |-> "get", company |-> c, by |-> caller, id |-> id]
  /\ answer' = IF ~IsCompanyAdministrator(c, caller) /\ caller \notin Contractors(c)
                 THEN QueryThrows("FORBIDDEN")
                 ELSE IF FoundRows(c, caller, id) = {}
                 THEN QueryThrows("NOT_FOUND")
                 ELSE Returns(FoundRows(c, caller, id))
  /\ UNCHANGED <<dbVars, lock, procs, last>>

NextQueries ==
  \/ \E i \in InvoiceIds : DeleteInvoice(i)
  \/ \E c \in Companies, ids \in IdLists : DeleteManyInvoices(c, ids)
  \/ \E c \in Companies, caller \in Users, contractorId \in ContractorIdInputs, status \in StatusInputs :
       list(c, caller, contractorId, status)
  \/ \E c \in Companies, caller \in Users, id \in IdUniverse : get(c, caller, id)

\* The invoices of the first company are payable to two different contractors and are received;
\* the invoice of the other company is paid. Each has one live integration record.
InitQueries ==
  /\ companies = [c \in Companies |-> [requiredInvoiceApprovals |-> MaxQuorum]]
  /\ invoices = [i \in InvoiceIds |->
                   [SeedInvoice(i, {}) EXCEPT
                      !.userId = IF i = 1 THEN NumAdmins ELSE ContractorUser,
                      !.createdById = IF i = 1 THEN NumAdmins ELSE ContractorUser,
                      !.status = IF SeedCompany(i) = 1 THEN "received" ELSE "paid"]]
  /\ approvals = [i \in InvoiceIds |-> [a \in Admins |-> 0]]
  /\ lineItems = [i \in InvoiceIds |-> 1]
  /\ expenses = [i \in InvoiceIds |-> 0]
  /\ integrationRecords = [i \in InvoiceIds |-> [live |-> 1, deleted |-> 0]]
  /\ consolidatedInvoices = [c \in Companies |-> 0]
  /\ lock = [i \in InvoiceIds |-> 0]
  /\ procs = [p \in Procs |-> IdleProc]
  /\ last = NoCall
  /\ probe = NoProbe
  /\ answer = FALSE

SpecQueries == InitQueries /\ [][NextQueries]_vars

(* ------------------------------- claims ------------------------------- *)

Count(i) == ApprovalCount(approvals[i])

Required(i) == companies[invoices[i].companyId].requiredInvoiceApprovals

\* Payable-now as the specification words it, on the stored rows of invoice i for administrator a.
PayableNowAsStated(i, a) ==
  \/ invoices[i].status = "failed"
  \/ /\ invoices[i].status \in {"received", "approved"}
     /\ ~(invoices[i].createdById # invoices[i].userId /\ invoices[i].acceptedAt = "null")
     /\ IF approvals[i][a] >= 1 THEN Required(i) - Count(i) <= 0 ELSE Required(i) - Count(i) <= 1

\* C1: DeleteInvoice.perform on an invoice whose status is payment_pending, processing, paid or
\* failed leaves the invoice row and every approval, line item, expense and integration record
\* as they were: nothing is destroyed and nothing is marked deleted.
C1_DenyingStatusLeavesAllUnchanged ==
  [][\A i \in InvoiceIds :
       (/\ last'.op = "DeleteInvoice"
        /\ last'.ids = <<i>>
        /\ i \in DOMAIN invoices
        /\ invoices[i].status \in {"payment_pending", "processing", "paid", "failed"})
       => UNCHANGED dbVars]_vars

C1_Witness ==
  /\ last.op = "DeleteInvoice"
  /\ \E i \in DOMAIN invoices :
       /\ last.ids = <<i>>
       /\ invoices[i].status \in {"payment_pending", "processing", "paid", "failed"}
       /\ Count(i) > 0
       /\ lineItems[i] > 0
       /\ integrationRecords[i].live > 0

\* C2: DeleteInvoice.perform on an invoice whose status is received, approved or rejected removes
\* exactly that invoice with all of its approvals, line items and expenses, and no invoice,
\* approval, line item or expense of any other invoice.
C2_AllowingStatusRemovesExactlyThatInvoice ==
  [][\A i \in InvoiceIds :
       (/\ last'.op = "DeleteInvoice"
        /\ last'.ids = <<i>>
        /\ i \in DOMAIN invoices
        /\ invoices[i].status \in {"received", "approved", "rejected"})
       => /\ DOMAIN invoices' = (DOMAIN invoices) \ {i}
          /\ ApprovalCount(approvals'[i]) = 0
          /\ lineItems'[i] = 0
          /\ expenses'[i] = 0
          /\ \A j \in InvoiceIds \ {i} :
               /\ j \in DOMAIN invoices => invoices'[j] = invoices[j]
               /\ approvals'[j] = approvals[j]
               /\ lineItems'[j] = lineItems[j]
               /\ expenses'[j] = expenses[j]]_vars

C2_Witness ==
  /\ last.op = "DeleteInvoice"
  /\ \E i \in InvoiceIds :
       /\ last.ids = <<i>>
       /\ i \notin DOMAIN invoices
       /\ Count(i) = 0 /\ lineItems[i] = 0 /\ expenses[i] = 0
       /\ \E j \in DOMAIN invoices : Count(j) > 0 /\ lineItems[j] > 0 /\ expenses[j] > 0

\* C3: the deletability check and the destructive writes of DeleteInvoice are atomic under the
\* invoice's row lock: in every interleaving with concurrent status transitions of the same
\* invoice, no step destroys an invoice whose committed status is payment_pending, processing,
\* paid or failed.
C3_NeverDestroyedInADenyingStatus ==
  [][\A i \in DOMAIN invoices :
       i \notin DOMAIN invoices'
         => invoices[i].status \notin {"payment_pending", "processing", "paid", "failed"}]_vars

\* A request loaded the invoice while it was deletable, a concurrent approval moved it to
\* payment_pending, and the request now holds the lock with the status it read under it.
C3_Witness ==
  \E p \in Procs :
    /\ procs[p].pc = "locked"
    /\ lock[procs[p].cur] = p
    /\ procs[p].loaded \in {"received", "approved"}
    /\ procs[p].st = "payment_pending"
    /\ invoices[procs[p].cur].status = "payment_pending"

\* C4: DeleteManyInvoices.perform with an id list of which at least one entry is unknown or names
\* an invoice of a different company raises not-found and deletes no invoice of any company.
C4_UnresolvedIdRaisesAndDeletesNothing ==
  [][(last'.op = "DeleteManyInvoices" /\ last'.missing >= 1)
       => (last'.raised = "RecordNotFound" /\ UNCHANGED dbVars)]_vars

C4_Witness ==
  /\ last.op = "DeleteManyInvoices"
  /\ last.missing >= 1
  /\ last.raised = "RecordNotFound"
  /\ \E i, j \in DOMAIN invoices :
       /\ invoices[i].companyId # invoices[j].companyId
       /\ can_delete(invoices[i].status)
       /\ can_delete(invoices[j].status)

C6_ApprovalBelowQuorumGivesApproved ==
  [][\A i \in DOMAIN invoices :
       (/\ last'.op = "approve"
        /\ last'.raised = "none"
        /\ last'.ids = <<i>>
        /\ approvals[i][last'.by] = 0
        /\ ApprovalCount(approvals'[i]) < Required(i))
       => /\ ApprovalCount(approvals'[i]) = Count(i) + 1
          /\ approvals'[i][last'.by] = 1
          /\ \A j \in InvoiceIds \ {i} : approvals'[j] = approvals[j]
          /\ i \in DOMAIN invoices'
          /\ invoices'[i].status = "approved"]_vars

C6_Witness ==
  /\ last.op = "approve"
  /\ last.raised = "none"
  /\ \E i \in DOMAIN invoices :
       /\ last.ids = <<i>>
       /\ approvals[i][last.by] = 1
       /\ Count(i) < Required(i)
       /\ invoices[i].status = "approved"

Selected(call) == SeqRange(call.ids)

PayableSelected(call) == {i \in Selected(call) : PayableNowAsStated(i, call.by)}

\* C7: one approve call in which K >= 1 of the selected invoices are payable-now creates exactly
\* one ConsolidatedInvoice row for the company, whatever K is, and none for another company; a
\* call in which no selected invoice is payable-now creates none.
C7_OneConsolidatedInvoicePerCall ==
  [][(last'.op \in {"approve", "bulkApprove"} /\ last'.raised = "none")
       => \A c \in Companies :
            consolidatedInvoices'[c] =
              consolidatedInvoices[c]
                + (IF c = CompanyOfAdmin(last'.by) /\ PayableSelected(last') # {} THEN 1 ELSE 0)]_vars

C7_Witness ==
  /\ last.op = "bulkApprove"
  /\ last.raised = "none"
  /\ Cardinality(Selected(last)) >= 2
  /\ \A i \in Selected(last) : i \in DOMAIN invoices /\ invoices[i].status = "payment_pending"
  /\ consolidatedInvoices[CompanyOfAdmin(last.by)] = 1

\* C8: after one bulk approve call by an administrator who had approved none of the selected
\* invoices, every selected invoice has gained exactly one approval row (the total grows by the
\* number of selected invoices), the ones that were payable-now have status payment_pending and
\* the other selected ones have status approved.
C8_BulkApproveOutcome ==
  [][(/\ last'.op = "bulkApprove"
      /\ last'.raised = "none"
      /\ \A i \in Selected(last') : i \in DOMAIN invoices /\ approvals[i][last'.by] = 0)
       => /\ \A i \in Selected(last') :
               /\ ApprovalCount(approvals'[i]) = Count(i) + 1
               /\ i \in DOMAIN invoices'
               /\ invoices'[i].status =
                    (IF i \in PayableSelected(last') THEN "payment_pending" ELSE "approved")
          /\ TotalApprovals' = TotalApprovals + Cardinality(Selected(last'))]_vars

C8_Witness ==
  /\ last.op = "bulkApprove"
  /\ last.raised = "none"
  /\ \E i, j \in Selected(last) :
       /\ i \in DOMAIN invoices /\ j \in DOMAIN invoices
       /\ invoices[i].status = "payment_pending"
       /\ invoices[j].status = "approved"
       /\ approvals[i][last.by] = 1
       /\ approvals[j][last.by] = 1

\* C9: useIsPayable is true exactly when the status is failed, or the status is received or
\* approved, the invoice does not require payee acceptance and required minus current approvals
\* is <= 0 if the acting administrator has approved it and <= 1 if not; it is false for every
\* invoice in payment_pending, processing, paid or rejected.
C9_PayableNowPredicate ==
  probe.fn = "useIsPayable" =>
    LET inv == probe.invoice
        gap == probe.required - SumOver(inv.approvals, Admins)
    IN /\ answer <=>
            \/ inv.status = "failed"
            \/ /\ inv.status \in {"received", "approved"}
               /\ inv.requiresAcceptanceByPayee = FALSE
               /\ IF inv.approvals[probe.user] >= 1 THEN gap <= 0 ELSE gap <= 1
       /\ inv.status \in {"payment_pending", "processing", "paid", "rejected"} => ~answer

C9_Witness ==
  /\ probe.fn = "useIsPayable"
  /\ answer
  /\ probe.invoice.status = "approved"
  /\ probe.invoice.approvals[probe.user] = 1
  /\ ApprovalCount(probe.invoice.approvals) = probe.required

\* C10: in every reachable state, after any sequence of approve, bulk approve, reject and delete
\* calls, there is at most one approval row per (invoice, approver) pair.
C10_OneApprovalPerInvoiceAndApprover ==
  \A i \in InvoiceIds, a \in Admins : approvals[i][a] <= 1

C10_Witness ==
  /\ last.op = "approve"
  /\ last.raised = "invalid"
  /\ \E i \in DOMAIN invoices :
       /\ last.ids = <<i>>
       /\ invoices[i].status = "approved"
       /\ approvals[i][last.by] = 1

C12_RejectStoresReasonOnEveryInvoice ==
  (last.op = "reject" /\ last.raised = "none")
    => \A i \in Selected(last) :
         /\ i \in DOMAIN invoices
         /\ invoices[i].status = "rejected"
         /\ invoices[i].rejectionReason = (IF last.reason = "" THEN "null" ELSE last.reason)

C12_Witness ==
  /\ last.op = "reject"
  /\ last.raised = "none"
  /\ last.reason = ""
  /\ Cardinality(Selected(last)) >= 2
  /\ \A i \in Selected(last) :
       i \in DOMAIN invoices /\ invoices[i].status = "rejected" /\ invoices[i].rejectionReason = "null"

\* C13: a reject call naming an invoice whose status is not received or approved fails and
\* leaves that invoice unchanged; a successful reject sets the status to rejected and removes
\* no approval row of the invoice.
C13_RejectOnlyFromReceivedOrApproved ==
  [][last'.op = "reject"
       => \A i \in Selected(last') \cap DOMAIN invoices :
            /\ invoices[i].status \notin {"received", "approved"}
                 => (last'.raised = "invalid" /\ i \in DOMAIN invoices' /\ invoices'[i] = invoices[i])
            /\ last'.raised = "none"
                 => /\ i \in DOMAIN invoices'
                    /\ invoices'[i].status = "rejected"
                    /\ approvals'[i] = approvals[i]]_vars

C13_Witness ==
  /\ last.op = "reject"
  /\ last.raised = "invalid"
  /\ \E i \in Selected(last) :
       /\ i \in DOMAIN invoices
       /\ invoices[i].status \in {"payment_pending", "processing", "paid", "failed"}
       /\ invoices[i].rejectionReason = "null"
       /\ Count(i) >= 1

\* C14: after a successful DeleteInvoice.perform every integration record tied to the invoice
\* still exists and is marked deleted; no step removes an integration record.
C14_IntegrationRecordsMarkedNotRemoved ==
  [][\A i \in InvoiceIds :
       /\ integrationRecords'[i].live + integrationRecords'[i].deleted
            = integrationRecords[i].live + integrationRecords[i].deleted
       /\ (i \in DOMAIN invoices /\ i \notin DOMAIN invoices')
            => /\ integrationRecords'[i].live = 0
               /\ integrationRecords'[i].deleted
                    = integrationRecords[i].live + integrationRecords[i].deleted]_vars

C14_Witness ==
  /\ last.op = "DeleteInvoice"
  /\ last.raised = "none"
  /\ \E i \in InvoiceIds :
       /\ last.ids = <<i>>
       /\ i \notin DOMAIN invoices
       /\ integrationRecords[i].live = 0
       /\ integrationRecords[i].deleted >= 1

\* C15: DeleteInvoice.perform on an invoice that is not deletable completes normally: it raises
\* nothing and runs no destroy step.
C15_NotDeletableIsSilentNoOp ==
  [][\A i \in InvoiceIds :
       (/\ last'.op = "DeleteInvoice"
        /\ last'.ids = <<i>>
        /\ i \in DOMAIN invoices
        /\ invoices[i].status \in {"payment_pending", "processing", "paid", "failed"})
       => (last'.raised = "none" /\ UNCHANGED dbVars)]_vars

C15_Witness ==
  /\ last.op = "DeleteInvoice"
  /\ last.raised = "none"
  /\ \E i \in DOMAIN invoices : last.ids = <<i>> /\ invoices[i].status = "paid"

\* C16: DeleteManyInvoices.perform with an empty id list raises no error, deletes no invoice
\* and runs the single-invoice delete zero times.
C16_EmptyListDoesNothing ==
  [][(last'.op = "DeleteManyInvoices" /\ last'.ids = <<>>)
       => (last'.raised = "none" /\ last'.performed = 0 /\ UNCHANGED dbVars)]_vars

C16_Witness ==
  /\ last.op = "DeleteManyInvoices"
  /\ last.ids = <<>>
  /\ last.raised = "none"
  /\ last.performed = 0
  /\ \E i \in DOMAIN invoices : can_delete(invoices[i].status) /\ invoices[i].companyId = 1

\* What C17 promises of one DeleteManyInvoices step over the id list ids.
BatchDeletesEachResolved(ids) ==
  /\ last'.raised = "none"
  /\ last'.performed = Cardinality(SeqRange(ids))
  /\ \A i \in SeqRange(ids) :
       /\ invoices[i].status \in {"received", "approved", "rejected"} => i \notin DOMAIN invoices'
       /\ invoices[i].status \in {"payment_pending", "processing", "paid", "failed"}
            => /\ i \in DOMAIN invoices'
               /\ invoices'[i] = invoices[i]
               /\ approvals'[i] = approvals[i]
               /\ lineItems'[i] = lineItems[i]
               /\ expenses'[i] = expenses[i]
               /\ integrationRecords'[i] = integrationRecords[i]

\* C17 as stated: when every id of the list resolves to an invoice of the company,
\* DeleteManyInvoices.perform runs the single-invoice delete once for each resolved invoice,
\* deletes the deletable ones, leaves the others unchanged and raises no error.
C17_EveryResolvedInvoiceIsProcessed ==
  [][(last'.op = "DeleteManyInvoices" /\ last'.missing = 0)
       => BatchDeletesEachResolved(last'.ids)]_vars

\* C17 for id lists without a repeated id: the same promise, which the code keeps.
C17_DistinctIdsAreProcessed ==
  [][(/\ last'.op = "DeleteManyInvoices"
      /\ last'.missing = 0
      /\ Cardinality(SeqRange(last'.ids)) = Len(last'.ids))
       => BatchDeletesEachResolved(last'.ids)]_vars

\* An id list that names the same deletable invoice twice: every entry resolves, and the call
\* raises not-found and deletes nothing.
C17_Witness ==
  /\ last.op = "DeleteManyInvoices"
  /\ last.missing = 0
  /\ Len(last.ids) = 2
  /\ last.ids[1] = last.ids[2]
  /\ last.raised = "RecordNotFound"
  /\ last.ids[1] \in DOMAIN invoices
  /\ can_delete(invoices[last.ids[1]].status)

\* The invoice a successful createAsAdmin call inserted.
Created(call) == call.ids[1]

\* C18: when the company's equity compensation is disabled, every invoice created by
\* createAsAdmin has equityAmountInCents = 0, equityAmountInOptions = 0, equityPercentage = 0 and
\* cashAmountInCents = totalAmountInUsdCents, whatever equity percentage the input asked for.
C18_NoEquityWhenCompensationDisabled ==
  (last.op = "createAsAdmin" /\ last.raised = "none")
    => LET row == invoices[Created(last)] IN
       ~companies[row.companyId].equityCompensationEnabled
         => /\ row.equityAmountInCents = 0
            /\ row.equityAmountInOptions = 0
            /\ row.equityPercentage = 0
            /\ row.cashAmountInCents = row.totalAmountInUsdCents

C18_Witness ==
  /\ last.op = "createAsAdmin"
  /\ last.raised = "none"
  /\ last.requested = 100
  /\ Created(last) \in DOMAIN invoices
  /\ ~companies[invoices[Created(last)].companyId].equityCompensationEnabled
  /\ invoices[Created(last)].equityPercentage = 0
  /\ invoices[Created(last)].totalAmountInUsdCents > 0
  /\ invoices[Created(last)].cashAmountInCents = invoices[Created(last)].totalAmountInUsdCents

\* C19: in every reachable state, after any sequence of createAsAdmin and acceptPayment calls,
\* every invoice has cashAmountInCents + equityAmountInCents = totalAmountInUsdCents.
C19_CashPlusEquityIsTotal ==
  \A i \in DOMAIN invoices :
    invoices[i].cashAmountInCents + invoices[i].equityAmountInCents = invoices[i].totalAmountInUsdCents

\* The payee accepted an invoice with a split other than the one it was created with, and
\* another invoice was created with a part in equity.
C19_Witness ==
  /\ last.op = "acceptPayment"
  /\ last.raised = "none"
  /\ \E i, j \in DOMAIN invoices :
       /\ last.ids = <<i>>
       /\ invoices[i].acceptedAt = "set"
       /\ invoices[i].equityAmountInCents = 0
       /\ invoices[i].cashAmountInCents > 0
       /\ j # i
       /\ invoices[j].equityAmountInCents > 0
       /\ invoices[j].cashAmountInCents > 0

\* C20: when the equity calculator signals failure, createAsAdmin and acceptPayment fail with a
\* bad-request error and commit nothing: no invoice and no line item is inserted, no email is
\* sent, and the acceptedAt and the cash and equity fields of every existing invoice stay.
C20_CalculatorFailureCommitsNothing ==
  [][(last'.op \in {"createAsAdmin", "acceptPayment"} /\ last'.calc = "failed")
       => /\ last'.raised = "BAD_REQUEST"
          /\ last'.sent = 0
          /\ UNCHANGED dbVars]_vars

C20_Witness ==
  /\ last.op = "acceptPayment"
  /\ last.calc = "failed"
  /\ last.raised = "BAD_REQUEST"
  /\ \E i \in DOMAIN invoices :
       /\ last.ids = <<i>>
       /\ invoices[i].acceptedAt = "null"
       /\ invoices[i].equityPercentage # last.requested
  /\ Cardinality(DOMAIN invoices) = 2

\* C21: whenever the equity calculator returns a percentage different from the requested one,
\* createAsAdmin (with equity enabled) and acceptPayment fail with "No options would be granted"
\* and commit nothing; so every equityPercentage they store equals the requested percentage.
C21_SubstitutedPercentageIsRefused ==
  [][(last'.op \in {"createAsAdmin", "acceptPayment"} /\ last'.calc = "answered")
       => /\ (last'.returned # last'.requested)
               => /\ last'.raised = "BAD_REQUEST"
                  /\ last'.message = "No options would be granted"
                  /\ last'.sent = 0
                  /\ UNCHANGED dbVars
          /\ (last'.raised = "none")
               => LET row == invoices'[Created(last')] IN
                  (last'.op = "createAsAdmin" \/ HasAllowedRange(row))
                    => row.equityPercentage = last'.requested]_vars

\* createAsAdmin asked for a part in equity, the calculator answered with none.
C21_Witness ==
  /\ last.op = "createAsAdmin"
  /\ last.calc = "answered"
  /\ last.requested = MidEquityPercentage
  /\ last.returned = 0
  /\ last.raised = "BAD_REQUEST"
  /\ last.message = "No options would be granted"
  /\ companies[last.company].equityCompensationEnabled
  /\ Cardinality(DOMAIN invoices) = 2

\* C22: createAsAdmin by a caller who is not a company administrator, and acceptPayment by a
\* caller who is not a company contractor, who is not the invoice's payee, or on an invoice
\* whose type is not "other", fail with FORBIDDEN and leave all invoices and line items unchanged.
C22_RoleChecksPrecedeEveryMutation ==
  [][(\/ /\ last'.op = "createAsAdmin"
         /\ ~(last'.by \in Admins /\ CompanyOfAdmin(last'.by) = last'.company)
      \/ /\ last'.op = "acceptPayment"
         /\ \/ last'.by \notin Contractors(last'.company)
            \/ /\ last'.ids # <<>>
               /\ \/ invoices[Created(last')].userId # last'.by
                  \/ invoices[Created(last')].invoiceType # "other")
       => /\ last'.raised = "FORBIDDEN"
          /\ UNCHANGED <<invoices, lineItems>>]_vars

\* A contractor of the company tried to accept an invoice that is payable to another contractor.
C22_Witness ==
  /\ last.op = "acceptPayment"
  /\ last.raised = "FORBIDDEN"
  /\ last.by \in Contractors(last.company)
  /\ \E i \in DOMAIN invoices :
       /\ last.ids = <<i>>
       /\ invoices[i].userId # last.by
       /\ invoices[i].invoiceType = "other"
       /\ invoices[i].acceptedAt = "null"

\* C23: acceptPayment by the payee of a one-off invoice that has both a minimum and a maximum
\* allowed equity percentage fails with "Equity percentage is out of range" and leaves the
\* invoice unchanged whenever the requested percentage is below the minimum or above the
\* maximum; after a successful acceptPayment the stored equityPercentage lies within [min, max].
C23_OutOfRangePercentageIsRefused ==
  [][(/\ last'.op = "acceptPayment"
      /\ last'.ids # <<>>
      /\ invoices[Created(last')].userId = last'.by
      /\ invoices[Created(last')].invoiceType = "other"
      /\ HasAllowedRange(invoices[Created(last')]))
       => LET i == Created(last')
              min == invoices[i].minAllowedEquityPercentage
              max == invoices[i].maxAllowedEquityPercentage
          IN /\ (last'.requested < min \/ last'.requested > max)
                  => /\ last'.raised = "BAD_REQUEST"
                     /\ last'.message = "Equity percentage is out of range"
                     /\ UNCHANGED dbVars
             /\ (last'.raised = "none")
                  => /\ min <= invoices'[i].equityPercentage
                     /\ invoices'[i].equityPercentage <= max]_vars

\* The payee asked for less equity than the minimum of the invoice.
C23_Witness ==
  /\ last.op = "acceptPayment"
  /\ last.raised = "BAD_REQUEST"
  /\ last.message = "Equity percentage is out of range"
  /\ \E i \in DOMAIN invoices :
       /\ last.ids = <<i>>
       /\ invoices[i].userId = last.by
       /\ last.requested < invoices[i].minAllowedEquityPercentage
       /\ invoices[i].acceptedAt = "null"

\* An invoice that a deletion has removed: its integration records are marked deleted.
HasBeenDeleted(i) == integrationRecords[i].deleted > 0

\* C24: once an invoice has been deleted, neither list nor get returns it to any caller (get
\* answers NOT_FOUND to a caller with a role in the company), and a contractor's delete of one
\* of two received invoices leaves exactly one invoice for the company.
C24_DeletedInvoiceIsInNoQuery ==
  [][/\ (probe'.fn \in {"list", "get"} /\ UNCHANGED <<dbVars, last>>)
          => \A i \in InvoiceIds :
               HasBeenDeleted(i)
                 => /\ i \notin answer'.rows
                    /\ (probe'.fn = "get" /\ probe'.id = i)
                         => /\ answer'.raised # "none"
                            /\ (\/ IsCompanyAdministrator(probe'.company, probe'.by)
                                \/ probe'.by \in Contractors(probe'.company))
                                 => answer'.raised = "NOT_FOUND"
     /\ (/\ last'.op = "DeleteManyInvoices"
         /\ last'.raised = "none"
         /\ Len(last'.ids) = 1
         /\ last'.ids[1] \in DOMAIN invoices
         /\ LET c == invoices[last'.ids[1]].companyId IN
              /\ Cardinality(CompanyInvoices(c)) = 2
              /\ \A j \in CompanyInvoices(c) : invoices[j].status = "received"
              /\ last'.performed = 1)
          => Cardinality({j \in DOMAIN invoices' :
                            invoices'[j].companyId = invoices[last'.ids[1]].companyId}) = 1]_vars

\* One of the two invoices of the first company was deleted; the administrator's list of the
\* company then returns the other one alone.
C24_Witness ==
  /\ probe.fn = "list"
  /\ probe.by = 1
  /\ probe.company = 1
  /\ probe.contractorId = 0
  /\ ~probe.status.given
  /\ answer.raised = "none"
  /\ Cardinality(answer.rows) = 1
  /\ \E i \in InvoiceIds :
       /\ HasBeenDeleted(i)
       /\ i \notin DOMAIN invoices
       /\ last.op = "DeleteManyInvoices"
       /\ last.ids = <<i>>
       /\ answer.rows = CompanyInvoices(1)

\* C25: once the status of an invoice is paid, payment_pending or processing, no approve,
\* reject, DeleteInvoice or DeleteManyInvoices operation changes its status to rejected or
\* removes it.
C25_PaidOrPayingIsNeitherRejectedNorDeleted ==
  [][\A i \in DOMAIN invoices :
       invoices[i].status \in {"paid", "payment_pending", "processing"}
         => /\ i \in DOMAIN invoices'
            /\ invoices'[i].status # "rejected"]_vars

\* A batch deletion ran the single-invoice delete on a paid invoice, which is still there.
C25_Witness ==
  /\ last.op = "DeleteManyInvoices"
  /\ last.raised = "none"
  /\ last.performed = 1
  /\ \E i \in DOMAIN invoices :
       /\ last.ids = <<i>>
       /\ invoices[i].status = "paid"
       /\ Count(i) >= 1
       /\ lineItems[i] > 0

\* Created on behalf of the payee by someone else and not yet accepted.
Unaccepted(row) == row.createdById # row.userId /\ row.acceptedAt = "null"

\* No administrator sees an unaccepted invoice as payable-now unless its status is failed.
UnacceptedIsNotPayable ==
  \A i \in DOMAIN invoices :
    Unaccepted(invoices[i])
      => /\ requiresAcceptanceByPayee(invoices[i])
         /\ \A a \in Admins : invoices[i].status # "failed" => ~IsPayableNow(i, a)

\* C26: an invoice created by createAsAdmin on behalf of a contractor other than the acting
\* administrator requires payee acceptance (createdById differs from userId and acceptedAt is
\* null) from its creation until a successful acceptPayment by that contractor, and in every
\* state in between it is not payable-now unless its status is failed.
C26_UnacceptedUntilThePayeeAccepts ==
  [][/\ (last'.op = "createAsAdmin" /\ last'.raised = "none" /\ Created(last') \notin DOMAIN invoices)
          => LET row == invoices'[Created(last')] IN
             /\ row.createdById = last'.by
             /\ row.userId # last'.by => Unaccepted(row)
     /\ \A i \in DOMAIN invoices :
          Unaccepted(invoices[i])
            => /\ i \in DOMAIN invoices'
               /\ \/ Unaccepted(invoices'[i])
                  \/ /\ last'.op = "acceptPayment"
                     /\ last'.raised = "none"
                     /\ last'.ids = <<i>>
                     /\ last'.by = invoices[i].userId
     /\ UnacceptedIsNotPayable']_vars

\* The contractor accepted an invoice an administrator had created for them; one approval
\* suffices in the company, and the invoice is payable-now only since the acceptance.
C26_Witness ==
  /\ last.op = "acceptPayment"
  /\ last.raised = "none"
  /\ \E i \in DOMAIN invoices :
       /\ i > 2
       /\ last.ids = <<i>>
       /\ invoices[i].createdById \in Admins
       /\ invoices[i].userId = last.by
       /\ invoices[i].createdById # invoices[i].userId
       /\ invoices[i].acceptedAt = "set"
       /\ IsPayableNow(i, invoices[i].createdById)
       /\ \E j \in DOMAIN invoices : Unaccepted(invoices[j]) /\ ~IsPayableNow(j, invoices[i].createdById)

\* C27: createAsAdmin inserts the invoice and its line item in one atomic transaction: each
\* invoice created by createAsAdmin has exactly one line item (quantity 1, pay rate equal to the
\* invoice total), and a failure of either insert leaves neither row behind.
C27_InvoiceAndLineItemAreInsertedTogether ==
  [][/\ \A i \in DOMAIN invoices' :
          invoices'[i].invoiceType = "other"
            => /\ Len(lineItems'[i]) = 1
               /\ lineItems'[i][1].quantity = 1
               /\ lineItems'[i][1].payRateInSubunits = invoices'[i].totalAmountInUsdCents
     /\ \A i \in InvoiceIds \ DOMAIN invoices' : lineItems'[i] = <<>>
     /\ (last'.op = "createAsAdmin" /\ last'.raised = "INTERNAL_SERVER_ERROR")
          => /\ UNCHANGED dbVars
             /\ last'.sent = 0]_vars

\* An insert of the transaction failed after every check of createAsAdmin had passed: there
\* is no third invoice and no line item of one.
C27_Witness ==
  /\ last.op = "createAsAdmin"
  /\ last.raised = "INTERNAL_SERVER_ERROR"
  /\ last.calc = "answered"
  /\ last.returned = last.requested
  /\ DOMAIN invoices = {1, 2}
  /\ lineItems[3] = <<>>
  /\ Len(lineItems[2]) = 1

\* C28: DeleteInvoice.perform is all-or-nothing: if any step after the deletability check fails
\* (destroying approvals, line items or expenses, marking an integration record deleted, or
\* destroying the invoice), the invoice, its dependents and its integration records are left
\* exactly as they were before the call.
C28_FailedDeletionChangesNothing ==
  [][\A p \in Procs :
       (procs[p].pc = "locked" /\ procs'[p].pc = "done" /\ procs'[p].raised \in SeqRange(PerformSteps))
         => LET i == procs[p].cur IN
            /\ i \in DOMAIN invoices' /\ invoices'[i] = invoices[i]
            /\ approvals'[i] = approvals[i]
            /\ lineItems'[i] = lineItems[i]
            /\ expenses'[i] = expenses[i]
            /\ integrationRecords'[i] = integrationRecords[i]
            /\ UNCHANGED dbVars]_vars

\* The last step, destroying the invoice, failed: the approved invoice still has its approval,
\* its line items and its live integration record.
C28_Witness ==
  \E p \in Procs :
    /\ procs[p].pc = "done"
    /\ procs[p].op = "DeleteInvoice"
    /\ procs[p].raised = "invoice.destroy!"
    /\ procs[p].cur \in DOMAIN invoices
    /\ invoices[procs[p].cur].status = "approved"
    /\ Count(procs[p].cur) >= 1
    /\ lineItems[procs[p].cur] > 0
    /\ integrationRecords[procs[p].cur] = [live |-> 1, deleted |-> 0]

\* C29: in every interleaving of a DeleteManyInvoices call with concurrent deletions of the same
\* invoices by other requests, a DeleteManyInvoices call that ends by raising not-found has
\* deleted no invoice.
C29_NotFoundBatchDeletedNothing ==
  \A p \in Procs :
    (procs[p].op = "DeleteManyInvoices" /\ procs[p].pc = "done" /\ procs[p].raised = "RecordNotFound")
      => procs[p].deleted = {}

\* A batch deleted its first invoice; another request then removed its second one, and the
\* lock of the batch on that row raised not-found.
C29_Witness ==
  \E p \in Procs :
    /\ procs[p].op = "DeleteManyInvoices"
    /\ procs[p].pc = "done"
    /\ procs[p].raised = "RecordNotFound"
    /\ procs[p].deleted # {}
    /\ procs[p].deleted \cap DOMAIN invoices = {}

\* C30: a second DeleteInvoice.perform for an invoice that an earlier or concurrent delete request
\* has already removed completes without error and changes nothing: two concurrent deletes of
\* the same deletable invoice remove it exactly once and neither raises.
C30_SecondDeleteCompletesSilently ==
  \A p \in Procs :
    (procs[p].op = "DeleteInvoice" /\ procs[p].pc = "done") => procs[p].raised = "none"

\* Two requests deleted the same invoice: one removed it, the lock of the other raised
\* not-found.
C30_Witness ==
  \E p, q \in Procs :
    /\ p # q
    /\ procs[p].op = "DeleteInvoice" /\ procs[p].pc = "done" /\ procs[p].raised = "RecordNotFound"
    /\ procs[q].op = "DeleteInvoice" /\ procs[q].pc = "done" /\ procs[q].raised = "none"
    /\ procs[q].deleted # {}
    /\ procs[q].deleted \cap DOMAIN invoices = {}

\* The row locks request p holds.
LocksOf(p) == {i \in InvoiceIds : lock[i] = p}

\* A request that waits for a row lock waits for a request that is deleting that very invoice.
WaitsOnlyForTheSameInvoice ==
  \A p, q \in Procs :
    (procs[p].pc = "new" /\ procs[p].cur \in DOMAIN invoices /\ lock[procs[p].cur] = q)
      => (q # p /\ procs[q].pc = "locked" /\ procs[q].cur = procs[p].cur)

\* C31: a DeleteManyInvoices call holds the row lock of at most one invoice at any time,
\* releasing it before locking the next; concurrent DeleteManyInvoices and DeleteInvoice calls
\* over overlapping invoices in any orders all terminate, and a call waits only for a call that
\* works on the same invoice.
C31_OneLockAtATimeAndNoDeadlock ==
  /\ [](\A p \in Procs : Cardinality(LocksOf(p)) <= 1)
  /\ []WaitsOnlyForTheSameInvoice
  /\ \A p \in Procs : (procs[p].pc # "idle") ~> (procs[p].pc = "done")

\* Two batches over the same invoices: one has deleted its first invoice and released that lock,
\* holds the lock of its next one, and the other batch waits for that lock.
C31_Witness ==
  \E p, q \in Procs :
    /\ p # q
    /\ procs[p].op = "DeleteManyInvoices" /\ procs[q].op = "DeleteManyInvoices"
    /\ procs[q].pc = "locked"
    /\ procs[q].deleted # {}
    /\ LocksOf(q) = {procs[q].cur}
    /\ procs[p].pc = "new"
    /\ procs[p].cur = procs[q].cur

\* C32: DeleteManyInvoices.perform raises not-found if and only if at least one id of the given
\* list does not resolve to an invoice of the company, for every id list, including lists in
\* which the same resolvable id appears more than once.
C32_NotFoundIffSomeIdIsUnresolved ==
  [][(last'.op = "DeleteManyInvoices")
       => ((last'.raised = "RecordNotFound") <=> (last'.missing > 0))]_vars

\* Every entry of the list names the same invoice of the company, in whatever status: the call
\* raises not-found, runs no single-invoice delete and leaves the invoice in place.
C32_Witness ==
  /\ last.op = "DeleteManyInvoices"
  /\ last.raised = "RecordNotFound"
  /\ last.missing = 0
  /\ last.performed = 0
  /\ last.ids # <<>>
  /\ \A k \in 1..Len(last.ids) : last.ids[k] = last.ids[1] /\ last.ids[k] \in DOMAIN invoices

\* C33: every invoice produced by createAsAdmin is created in status received, with type
\* "other", with no approval rows, with createdById equal to the acting administrator and userId
\* equal to the contractor named in the input.
C33_CreatedInvoiceIsReceivedOneOff ==
  (last.op = "createAsAdmin" /\ last.raised = "none")
    => LET i == Created(last)
           row == invoices[i]
       IN /\ i \in DOMAIN invoices
          /\ row.status = "received"
          /\ row.invoiceType = "other"
          /\ ApprovalCount(approvals[i]) = 0
          /\ row.createdById = last.by
          /\ last.by \in Admins
          /\ row.userId = last.payee
          /\ row.companyId = last.company

\* The first administrator created an invoice for the contractor.
C33_Witness ==
  /\ last.op = "createAsAdmin"
  /\ last.raised = "none"
  /\ last.by = 1
  /\ last.payee = ContractorUser
  /\ Created(last) \in DOMAIN invoices
  /\ invoices[Created(last)].status = "received"
  /\ invoices[Created(last)].userId = ContractorUser
  /\ invoices[Created(last)].createdById = 1
  /\ Cardinality(DOMAIN invoices) = 3

\* C34: once an invoice has been accepted by its payee (acceptedAt is set) or has reached status
\* payment_pending, processing or paid, no later acceptPayment call changes its acceptedAt,
\* equityPercentage, cashAmountInCents, equityAmountInCents or equityAmountInOptions.
C34_AcceptedSplitIsFinal ==
  [][(last'.op = "acceptPayment")
       => \A i \in DOMAIN invoices :
            (invoices[i].acceptedAt = "set" \/ invoices[i].status \in {"payment_pending", "processing", "paid"})
              => /\ i \in DOMAIN invoices'
                 /\ invoices'[i].acceptedAt = invoices[i].acceptedAt
                 /\ invoices'[i].equityPercentage = invoices[i].equityPercentage
                 /\ invoices'[i].cashAmountInCents = invoices[i].cashAmountInCents
                 /\ invoices'[i].equityAmountInCents = invoices[i].equityAmountInCents
                 /\ invoices'[i].equityAmountInOptions = invoices[i].equityAmountInOptions]_vars

\* C35: a caller who is not an administrator of the company never obtains another contractor's
\* invoice: get returns an invoice to such a caller only if it belongs to the caller's company
\* and to the caller's own contractor record (otherwise NOT_FOUND), list is FORBIDDEN unless the
\* requested contractorId is the caller's own, and no invoice of a different company is returned
\* to anyone.
C35_QueriesAreScopedToCompanyAndContractor ==
  [][(probe'.fn \in {"list", "get"} /\ UNCHANGED <<dbVars, last>>)
       => LET c == probe'.company
              caller == probe'.by
          IN /\ \A i \in answer'.rows : i \in DOMAIN invoices /\ invoices[i].companyId = c
             /\ ~(caller \in Admins /\ CompanyOfAdmin(caller) = c)
                  => /\ \A i \in answer'.rows : invoices[i].userId = caller
                     /\ (probe'.fn = "list" /\ probe'.contractorId # ContractorIdOf(c, caller))
                          => answer'.raised = "FORBIDDEN"
                     /\ (/\ probe'.fn = "get"
                         /\ caller \in Contractors(c)
                         /\ \/ probe'.id \notin DOMAIN invoices
                            \/ invoices[probe'.id].companyId # c
                            \/ invoices[probe'.id].userId # caller)
                          => answer'.raised = "NOT_FOUND"]_vars

\* The contractor asked for an invoice of the same company that is payable to another
\* contractor: not found.
C35_Witness ==
  /\ probe.fn = "get"
  /\ probe.by = ContractorUser
  /\ probe.by \in Contractors(probe.company)
  /\ probe.id \in DOMAIN invoices
  /\ invoices[probe.id].companyId = probe.company
  /\ invoices[probe.id].userId # probe.by
  /\ answer.raised = "NOT_FOUND"
  /\ answer.rows = {}

\* The greatest number a digit run of the one-off invoices in S stands for.
HighestOf(S) ==
  LET top == CHOOSE i \in S : \A j \in S : ParseInt(invoices[j].invoiceNumber.digits)
                                             <= ParseInt(invoices[i].invoiceNumber.digits)
  IN invoices[top].invoiceNumber

\* C37: in a sequential run of createAsAdmin calls for one company and contractor, the first
\* invoice gets number O-0001, each later invoice gets the number whose last digit run is the
\* previously highest number's last digit run plus one (zero-padded to at least the same width),
\* and no two invoices of that company and contractor share an invoice number, also after the
\* digit run has grown past its original width.
C37_SequentialNumbersAscendAndDiffer ==
  [][(last'.op = "createAsAdmin" /\ last'.raised = "none")
       => LET row == invoices'[Created(last')]
              earlier == AdminInvoicesOf(row.companyId, row.userId)
          IN /\ earlier = {} => row.invoiceNumber = INITIAL_ADMIN_INVOICE_NUMBER
             /\ earlier # {}
                  => /\ row.invoiceNumber.prefix = HighestOf(earlier).prefix
                     /\ ParseInt(row.invoiceNumber.digits) = ParseInt(HighestOf(earlier).digits) + 1
                     /\ Len(row.invoiceNumber.digits) >= Len(HighestOf(earlier).digits)
             /\ \A j \in earlier : invoices[j].invoiceNumber # row.invoiceNumber]_vars

\* The contractor has O-9999 and O-10000, and a third one-off invoice numbered O-10000 again.
C37_Witness ==
  /\ last.op = "createAsAdmin"
  /\ last.raised = "none"
  /\ \E i, j, k \in DOMAIN invoices :
       /\ i # j /\ j # k /\ i # k
       /\ invoices[i].userId = invoices[j].userId /\ invoices[j].userId = invoices[k].userId
       /\ invoices[i].invoiceNumber.digits = <<9, 9, 9, 9>>
       /\ invoices[j].invoiceNumber.digits = <<1, 0, 0, 0, 0>>
       /\ invoices[k].invoiceNumber = invoices[j].invoiceNumber

\* C37 while the digit run keeps its width: the same promise, for calls in which the highest
\* number so far is not the last one of its width.
C37_NumbersAscendWithinTheWidth ==
  [][(last'.op = "createAsAdmin" /\ last'.raised = "none")
       => LET row == invoices'[Created(last')]
              earlier == AdminInvoicesOf(row.companyId, row.userId)
          IN (\A j \in earlier : Len(invoices[j].invoiceNumber.digits) = Len(INITIAL_ADMIN_INVOICE_NUMBER.digits))
               => /\ earlier = {} => row.invoiceNumber = INITIAL_ADMIN_INVOICE_NUMBER
                  /\ earlier # {}
                       => /\ row.invoiceNumber.prefix = HighestOf(earlier).prefix
                          /\ ParseInt(row.invoiceNumber.digits) = ParseInt(HighestOf(earlier).digits) + 1
                          /\ Len(row.invoiceNumber.digits) >= Len(HighestOf(earlier).digits)
                  /\ \A j \in earlier : invoices[j].invoiceNumber # row.invoiceNumber]_vars

\* C36: two createAsAdmin calls for the same company and contractor that run concurrently
\* never store the same invoice number on two invoices.
C36_ConcurrentCallsStoreDifferentNumbers ==
  \A i, j \in DOMAIN invoices :
    (/\ i # j
     /\ invoices[i].invoiceType = "other" /\ invoices[j].invoiceType = "other"
     /\ invoices[i].companyId = invoices[j].companyId
     /\ invoices[i].userId = invoices[j].userId)
      => invoices[i].invoiceNumber # invoices[j].invoiceNumber

\* Two requests read the number before either inserted: the contractor's first two one-off
\* invoices are both numbered O-0001.
C36_Witness ==
  /\ \A p \in Procs : procs[p].pc = "idle"
  /\ \E i, j \in DOMAIN invoices :
       /\ i # j
       /\ invoices[i].companyId = invoices[j].companyId
       /\ invoices[i].userId = invoices[j].userId
       /\ invoices[i].invoiceNumber = INITIAL_ADMIN_INVOICE_NUMBER
       /\ invoices[j].invoiceNumber = INITIAL_ADMIN_INVOICE_NUMBER
       /\ AdminInvoicesOf(invoices[i].companyId, invoices[i].userId) = {i, j}

\* C38: useIsActionable is true exactly when the invoice is payable-now, or the current user has
\* not approved it and its status is received or approved; an invoice in paid, payment_pending,
\* processing or rejected is never actionable, and a received or approved invoice the current
\* user has approved is actionable only when it is payable-now.
C38_ActionablePredicate ==
  (probe.fn = "useIsActionable")
    => LET approvedByUser == probe.invoice.approvals[probe.user] > 0
           payable == useIsPayable(probe.invoice, probe.user, probe.required)
       IN /\ answer <=> (payable \/ (~approvedByUser /\ probe.invoice.status \in {"received", "approved"}))
          /\ probe.invoice.status \in {"paid", "payment_pending", "processing", "rejected"} => ~answer
          /\ (probe.invoice.status \in {"received", "approved"} /\ approvedByUser) => (answer <=> payable)

\* A paid invoice the current user has not approved: not actionable.
C38_Witness ==
  /\ probe.fn = "useIsActionable"
  /\ probe.invoice.status = "paid"
  /\ probe.invoice.approvals[probe.user] = 0
  /\ ~probe.invoice.requiresAcceptanceByPayee
  /\ answer = FALSE

\* C39: for every total T >= 0 in cents, the platform fee stored by createAsAdmin equals
\* min(1500, 50 + floor(T * 150 / 10000)); it is between 50 and 1500 cents and never decreases
\* when T increases.
C39_StoredFeeIsCappedAndMonotone ==
  \A i \in DOMAIN invoices :
    LET T == invoices[i].totalAmountInUsdCents
        floored == 50 + (T * 150) \div 10000
    IN /\ invoices[i].flexileFeeCents = IF floored < 1500 THEN floored ELSE 1500
       /\ invoices[i].flexileFeeCents >= 50
       /\ invoices[i].flexileFeeCents <= 1500
       /\ \A j \in DOMAIN invoices :
            T <= invoices[j].totalAmountInUsdCents
              => invoices[i].flexileFeeCents <= invoices[j].flexileFeeCents

\* Two created invoices: one a cent below the cap, one above it.
C39_Witness ==
  \E j, k \in DOMAIN invoices :
    /\ invoices[j].flexileFeeCents = 1499
    /\ 50 + (invoices[k].totalAmountInUsdCents * 150) \div 10000 > 1500
    /\ invoices[k].flexileFeeCents = 1500
    /\ invoices[j].totalAmountInUsdCents < invoices[k].totalAmountInUsdCents
    /\ \A n \in {j, k} : invoices[n].createdById \in Admins /\ invoices[n].invoiceType = "other"

====
